---- MODULE Spec2Model ----
(***************************************************************************)
(* Verification model of the ov-vectordb storage engine: collections with  *)
(* named vector indexes, their persistence to a directory, the project     *)
(* namespace above them, the file-backed KV store and the collection's     *)
(* reader-writer locks.                                                    *)
(*                                                                         *)
(* Conventions.  Rust Vec positions are 0-based; sequences here are        *)
(* 1-based, so Vec position i is sequence position i+1 and internal ids    *)
(* and array indexes are shifted by one.  JSON values (serde_json::Value)  *)
(* are tagged records: [num |-> n] (an integer number), [flt |-> x] (a      *)
(* float number), [str |-> s], [arr |-> <<...>>].                          *)
(* f32 vectors held by an index are rationals with a common denominator,   *)
(* [num |-> <<..>>, den |-> d]; the model's vectors have integral norms,   *)
(* so normalisation is exact.                                              *)
(***************************************************************************)
EXTENDS Integers, Sequences, FiniteSets, TLC

\* ------------------------------------------------------------------ bounds
\* Calls made on an in-memory collection in one run.
MaxOps == 3
\* Calls made on a persistent collection in one run.
MaxOpsP == 4
\* Calls made on a persistent project in one run.
MaxOpsProj == 5
\* Calls made on a persistent collection whose persist runs step by step.
MaxOpsC == 4
\* FileStore::put calls made in one run.
MaxPuts == 3
\* Calls made on an in-memory collection whose calls repeat keys.
MaxOpsU == 3
\* Calls made on an in-memory collection that is searched with filters.
MaxOpsF == 3
\* Records a collection holds at most when an index is created on it there.
MaxReplay == 3
\* Calls the threads make on one collection in one run.
MaxCalls == 4

\* ------------------------------------------------------------ JSON values
Num(n) == [num |-> n]
Str(s) == [str |-> s]
Flt(x) == [flt |-> x]
Arr(a) == [arr |-> a]
IsNum(v) == DOMAIN v = {"num"}
IsStr(v) == DOMAIN v = {"str"}
IsFlt(v) == DOMAIN v = {"flt"}
IsArr(v) == DOMAIN v = {"arr"}
\* Option::None / JSON null / a missing map entry.
None == [none |-> TRUE]

\* Sequence helpers.
Range(s) == {s[i] : i \in DOMAIN s}
SeqSum(s) == LET RECURSIVE go(_)
                 go(i) == IF i = 0 THEN 0 ELSE s[i] + go(i - 1)
             IN go(Len(s))
Take(s, n) == SubSeq(s, 1, IF n < Len(s) THEN n ELSE Len(s))
\* The largest element of a set of naturals (0 for the empty set).
SetMax(S) == IF S = {} THEN 0 ELSE CHOOSE x \in S : \A y \in S : y <= x
\* A function with one entry added or replaced, and with one entry removed.
MapPut(m, k, v) == [x \in DOMAIN m \cup {k} |-> IF x = k THEN v ELSE m[x]]
MapDel(m, k) == [x \in DOMAIN m \ {k} |-> m[x]]
EmptyMap == [x \in {} |-> None]

\* ------------------------------------------------------ collection config
\* The schema used throughout: an int64/string primary key, a 2-dimensional
\* vector field and one scalar field.
Cfg ==
    [name |-> "c",
     fields |-> << [name |-> "id", field_type |-> "int64", is_primary_key |-> TRUE, dim |-> None],
                   [name |-> "vec", field_type |-> "vector", is_primary_key |-> FALSE, dim |-> Num(2)],
                   [name |-> "cat", field_type |-> "string", is_primary_key |-> FALSE, dim |-> None] >>]

\* fields.iter().find(is_primary_key): the first such field's name.
primary_key(config) ==
    IF \E i \in DOMAIN config.fields : config.fields[i].is_primary_key
    THEN Str(config.fields[CHOOSE i \in DOMAIN config.fields :
                 /\ config.fields[i].is_primary_key
                 /\ \A j \in 1..(i - 1) : ~config.fields[j].is_primary_key].name)
    ELSE None

\* fields.iter().find(field_type == Vector): the first vector field.
vector_field(config) ==
    IF \E i \in DOMAIN config.fields : config.fields[i].field_type = "vector"
    THEN config.fields[CHOOSE i \in DOMAIN config.fields :
             /\ config.fields[i].field_type = "vector"
             /\ \A j \in 1..(i - 1) : config.fields[j].field_type # "vector"]
    ELSE None

dimension(config) ==
    LET vf == vector_field(config)
    IN IF vf = None THEN 0 ELSE IF vf.dim = None THEN 0 ELSE vf.dim.num

\* ------------------------------------------------------ value conversions
\* std DefaultHasher over the string: an opaque 64-bit value per string.
DefaultHasher(s) == CASE s = "a" -> 7
                      [] s = "b" -> 9
                      [] OTHER -> 11

value_to_u64(v) ==
    IF IsNum(v) THEN v.num    \* as_u64; the model's keys are non-negative
    ELSE IF IsStr(v) THEN DefaultHasher(v.str)
    ELSE 0

\* Value::as_f64 of a JSON number (None for any other value).
as_f64(v) == IF IsNum(v) THEN v.num ELSE IF IsFlt(v) THEN v.flt ELSE None
IsNumber(v) == IsNum(v) \/ IsFlt(v)

\* f64 and f32 values are integers here.  f32::MAX (about 3.4e38) is beyond
\* TLC's integers, so the float range is scaled down: F32_MAX is the largest
\* finite f32, and a number above it is, like the JSON number 1e39, a
\* finite f64 that is too large for an f32.
F32_MAX == 1000000
INFINITY == F32_MAX + 1
\* `f as f32`: a value beyond the f32 range becomes an infinity.
f64_as_f32(f) ==
    IF f > F32_MAX THEN INFINITY ELSE IF f < -F32_MAX THEN -INFINITY ELSE f
is_finite(x) == x # INFINITY /\ x # -INFINITY

\* filter_map(as_f64) keeps the numeric elements, each cast to f32; a
\* non-array gives the empty vector.
value_to_f32_vec(v) ==
    IF IsArr(v)
    THEN LET nums == SelectSeq(v.arr, IsNumber)
         IN [i \in 1..Len(nums) |-> f64_as_f32(as_f64(nums[i]))]
    ELSE <<>>

\* Value::from(f64): a finite float is a JSON number, any other is null.
Value_from_f64(x) == IF is_finite(x) THEN Flt(x) ELSE None

\* Value::from(f as f64) for each element, collected into a JSON array.
f32_vec_to_value(vec) == Arr([i \in 1..Len(vec) |-> Value_from_f64(vec[i])])

\* ------------------------------------------------------- distance kernels
\* An f32 vector inside an index: components num[i] / den, den > 0.  The
\* kernels below compute on finite components.
FVec(v) == [num |-> v, den |-> 1]
\* A score: the rational n / d with d > 0.
Rat(n, d) == [n |-> n, d |-> d]
RatGt(a, b) == a.n * b.d > b.n * a.d
RatLt(a, b) == RatGt(b, a)
RatEq(a, b) == a.n * b.d = b.n * a.d

\* f32::sqrt; exact on the squares the model's vectors produce.
Sqrt(n) == CHOOSE k \in 0..n : k * k <= n /\ (k + 1) * (k + 1) > n
SumSq(v) == SeqSum([i \in DOMAIN v |-> v[i] * v[i]])

inner_product(a, b) ==
    Rat(SeqSum([i \in DOMAIN a.num |-> a.num[i] * b.num[i]]), a.den * b.den)

l2_squared(a, b) ==
    Rat(SeqSum([i \in DOMAIN a.num |->
                 (a.num[i] * b.den - b.num[i] * a.den) * (a.num[i] * b.den - b.num[i] * a.den)]),
        (a.den * b.den) * (a.den * b.den))

cosine_similarity(a, b) ==
    LET dot == inner_product(a, b)
        na == Sqrt(SumSq(a.num))      \* norm_a * a.den
        nb == Sqrt(SumSq(b.num))      \* norm_b * b.den
    IN IF na = 0 \/ nb = 0 THEN Rat(0, 1)
       ELSE Rat(dot.n, na * nb)       \* (dot.n / (ad bd)) / ((na / ad) (nb / bd))

normalize_vector(v) ==
    LET n == Sqrt(SumSq(v.num))       \* norm * v.den
    IN IF n > 0 THEN [num |-> v.num, den |-> n] ELSE v

compute_score(metric, a, b) ==
    CASE metric = "l2" -> LET dist == l2_squared(a, b) IN Rat(dist.d, dist.d + dist.n)
      [] metric = "ip" -> inner_product(a, b)
      [] OTHER -> cosine_similarity(a, b)

\* A stable sort of a sequence of [id, score] by descending score
\* (slice::sort_by is stable; equal scores keep their order).
SortDesc(s) ==
    LET rank(i) == 1 + Cardinality({j \in DOMAIN s :
                        \/ RatGt(s[j].score, s[i].score)
                        \/ (RatEq(s[j].score, s[i].score) /\ j < i)})
    IN [k \in DOMAIN s |-> s[CHOOSE i \in DOMAIN s : rank(i) = k]]

\* ------------------------------------------------------------- flat index
\* FlatInner; label_to_idx holds sequence positions (Vec index + 1).
FlatIndex_new(dim, metric) ==
    [kind |-> "flat", dimension |-> dim, metric |-> metric,
     labels |-> <<>>, vectors |-> <<>>, label_to_idx |-> EmptyMap]

FlatIndex_insert(ix, label, vector) ==
    IF Len(vector) # ix.dimension THEN ix          \* Err(DimensionMismatch)
    ELSE LET vec == IF ix.metric = "cosine" THEN normalize_vector(FVec(vector))
                    ELSE FVec(vector)
         IN IF label \in DOMAIN ix.label_to_idx
            THEN [ix EXCEPT !.vectors[ix.label_to_idx[label]] = vec]
            ELSE [ix EXCEPT !.labels = Append(@, label),
                            !.vectors = Append(@, vec),
                            !.label_to_idx = MapPut(@, label, Len(ix.labels) + 1)]

\* A delete that drops the last slot when the label is not in the index.
FlatIndex_delete_popAbsent(ix, label) ==
    IF label \notin DOMAIN ix.label_to_idx
    THEN IF ix.labels = <<>> THEN ix
         ELSE [ix EXCEPT !.labels = SubSeq(@, 1, Len(@) - 1),
                         !.vectors = SubSeq(@, 1, Len(@) - 1),
                         !.label_to_idx = MapDel(@, ix.labels[Len(ix.labels)])]
    ELSE LET idx == ix.label_to_idx[label]
             last == Len(ix.labels)
             removed == MapDel(ix.label_to_idx, label)
             moved_label == ix.labels[last]
         IN IF idx # last
            THEN [ix EXCEPT !.labels = SubSeq([@ EXCEPT ![idx] = moved_label], 1, last - 1),
                            !.vectors = SubSeq([@ EXCEPT ![idx] = ix.vectors[last]], 1, last - 1),
                            !.label_to_idx = MapPut(removed, moved_label, idx)]
            ELSE [ix EXCEPT !.labels = SubSeq(@, 1, last - 1),
                            !.vectors = SubSeq(@, 1, last - 1),
                            !.label_to_idx = removed]

\* A swap-remove that leaves the moved label's map entry as it was.
FlatIndex_delete_noFixup(ix, label) ==
    IF label \notin DOMAIN ix.label_to_idx THEN ix
    ELSE LET idx == ix.label_to_idx[label]
             last == Len(ix.labels)
         IN [ix EXCEPT !.labels = SubSeq([@ EXCEPT ![idx] = ix.labels[last]], 1, last - 1),
                       !.vectors = SubSeq([@ EXCEPT ![idx] = ix.vectors[last]], 1, last - 1),
                       !.label_to_idx = MapDel(@, label)]

\* swap-remove: the last element moves into the freed slot.
FlatIndex_delete(ix, label) ==
    IF label \notin DOMAIN ix.label_to_idx THEN ix
    ELSE LET idx == ix.label_to_idx[label]
             last == Len(ix.labels)
             removed == MapDel(ix.label_to_idx, label)
             moved_label == ix.labels[last]
         IN IF idx # last
            THEN [ix EXCEPT !.labels = SubSeq([@ EXCEPT ![idx] = moved_label], 1, last - 1),
                            !.vectors = SubSeq([@ EXCEPT ![idx] = ix.vectors[last]], 1, last - 1),
                            !.label_to_idx = MapPut(removed, moved_label, idx)]
            ELSE [ix EXCEPT !.labels = SubSeq(@, 1, last - 1),
                            !.vectors = SubSeq(@, 1, last - 1),
                            !.label_to_idx = removed]

\* A search that returns the first top_k labels in slot order.
FlatIndex_search_unsorted(ix, query, top_k) ==
    IF Len(query) # ix.dimension THEN None
    ELSE IF ix.labels = <<>> \/ top_k = 0 THEN <<>>
    ELSE LET query_vec == IF ix.metric = "cosine" THEN normalize_vector(FVec(query))
                          ELSE FVec(query)
             effective_metric == IF ix.metric = "cosine" THEN "ip" ELSE ix.metric
         IN Take([i \in DOMAIN ix.labels |->
                    [id |-> ix.labels[i],
                     score |-> compute_score(effective_metric, query_vec, ix.vectors[i])]],
                 top_k)

\* A SearchResult is a sequence of [id, score], best first; Err(..) is None.
FlatIndex_search(ix, query, top_k) ==
    IF Len(query) # ix.dimension THEN None
    ELSE IF ix.labels = <<>> \/ top_k = 0 THEN <<>>
    ELSE LET query_vec == IF ix.metric = "cosine" THEN normalize_vector(FVec(query))
                          ELSE FVec(query)
             effective_metric == IF ix.metric = "cosine" THEN "ip" ELSE ix.metric
             scored == [i \in DOMAIN ix.labels |->
                          [id |-> ix.labels[i],
                           score |-> compute_score(effective_metric, query_vec, ix.vectors[i])]]
         IN Take(SortDesc(scored), top_k)

FlatIndex_len(ix) == Len(ix.labels)

\* ------------------------------------------------------------- HNSW index
\* HnswIndex::new(dim, metric) = with_params(dim, metric, 16, 200, 50).
HnswM == 16
HnswEfConstruction == 200
HnswEfSearch == 50
\* random_level draws floor(-ln(r) * ml); the model draws from 0..MaxLevel.
MaxLevel == 1

\* HnswInner.  Internal ids are sequence positions (Vec index + 1);
\* entry_point = 0 is Option::None; layers[l + 1] is the code's layers[l].
HnswIndex_new(dim, metric) ==
    [kind |-> "hnsw", dimension |-> dim, metric |-> metric,
     m |-> HnswM, ef_construction |-> HnswEfConstruction, ef_search |-> HnswEfSearch,
     vectors |-> <<>>, label_to_id |-> EmptyMap, id_to_label |-> <<>>,
     layers |-> <<>>, node_levels |-> <<>>, entry_point |-> 0, max_level |-> 0,
     deleted |-> {}]

\* HnswIndex::with_params
HnswIndex_with_params(dim, metric, m, ef_construction, ef_search) ==
    [HnswIndex_new(dim, metric) EXCEPT !.m = m, !.ef_construction = ef_construction,
                                       !.ef_search = ef_search]

\* layers[level][id], or the empty list where the code's bounds test fails.
Neighbors(layers, level, id) ==
    IF level + 1 <= Len(layers) /\ id <= Len(layers[level + 1])
    THEN layers[level + 1][id] ELSE <<>>

\* One pass of greedy_closest's for loop over the neighbours nbs of the
\* pass's start: the best-scoring live neighbour that beats cur, else cur.
RECURSIVE GreedyPass(_, _, _, _, _, _, _)
GreedyPass(vectors, query, deleted, metric, nbs, i, cur) ==
    IF i > Len(nbs) THEN cur
    ELSE IF /\ nbs[i] \notin deleted
            /\ RatGt(compute_score(metric, query, vectors[nbs[i]]),
                     compute_score(metric, query, vectors[cur]))
         THEN GreedyPass(vectors, query, deleted, metric, nbs, i + 1, nbs[i])
         ELSE GreedyPass(vectors, query, deleted, metric, nbs, i + 1, cur)

RECURSIVE GreedyLoop(_, _, _, _, _, _, _)
GreedyLoop(vectors, layers, level, cur, query, deleted, metric) ==
    IF GreedyPass(vectors, query, deleted, metric, Neighbors(layers, level, cur), 1, cur) = cur
    THEN cur
    ELSE GreedyLoop(vectors, layers, level,
                    GreedyPass(vectors, query, deleted, metric,
                               Neighbors(layers, level, cur), 1, cur),
                    query, deleted, metric)

greedy_closest(vectors, layers, level, start, query, deleted, metric) ==
    GreedyLoop(vectors, layers, level, start, query, deleted, metric)

\* Heap order of (OrderedFloat(score), id) pairs.
KeyGt(a, b) == RatGt(a.score, b.score) \/ (RatEq(a.score, b.score) /\ a.id > b.id)
HeapMax(h) == CHOOSE x \in h : \A y \in h \ {x} : KeyGt(x, y)
HeapMin(h) == CHOOSE x \in h : \A y \in h \ {x} : KeyGt(y, x)
\* The elements of a heap as a sequence, by ascending id (the order equal
\* scores keep in the sorted result).
RECURSIVE HeapSeq(_)
HeapSeq(h) ==
    IF h = {} THEN <<>>
    ELSE <<CHOOSE y \in h : \A z \in h : y.id <= z.id>>
         \o HeapSeq(h \ {CHOOSE y \in h : \A z \in h : y.id <= z.id})

\* results.push(..) followed by the pop that keeps at most ef results.
PushResult(results, it, ef) ==
    IF Cardinality(results \cup {it}) > ef
    THEN (results \cup {it}) \ {HeapMin(results \cup {it})}
    ELSE results \cup {it}

\* The body of search_layer's for loop for one unvisited neighbour `it`.
VisitNeighbor(st, it, ef, deleted) ==
    IF \/ Cardinality(st.results) < ef
       \/ st.results = {}
       \/ RatGt(it.score, HeapMin(st.results).score)
    THEN [candidates |-> st.candidates \cup {it},
          results |-> IF it.id \in deleted THEN st.results
                      ELSE PushResult(st.results, it, ef),
          visited |-> st.visited \cup {it.id}]
    ELSE [st EXCEPT !.visited = @ \cup {it.id}]

\* search_layer's for loop over one candidate's neighbours.
RECURSIVE ExpandNeighbors(_, _, _, _, _, _, _, _)
ExpandNeighbors(st, nbs, i, vectors, query, ef, deleted, metric) ==
    IF i > Len(nbs) THEN st
    ELSE IF nbs[i] \in st.visited
         THEN ExpandNeighbors(st, nbs, i + 1, vectors, query, ef, deleted, metric)
         ELSE ExpandNeighbors(
                  VisitNeighbor(st, [id |-> nbs[i],
                                     score |-> compute_score(metric, query, vectors[nbs[i]])],
                                ef, deleted),
                  nbs, i + 1, vectors, query, ef, deleted, metric)

\* search_layer's while-let loop popping the best candidate.
RECURSIVE SearchLoop(_, _, _, _, _, _, _, _)
SearchLoop(st, vectors, layers, level, query, ef, deleted, metric) ==
    IF st.candidates = {} THEN st
    ELSE IF /\ st.results # {}
            /\ Cardinality(st.results) >= ef
            /\ RatLt(HeapMax(st.candidates).score, HeapMin(st.results).score)
         THEN st
         ELSE SearchLoop(
                  ExpandNeighbors([st EXCEPT !.candidates = @ \ {HeapMax(st.candidates)}],
                                  Neighbors(layers, level, HeapMax(st.candidates).id), 1,
                                  vectors, query, ef, deleted, metric),
                  vectors, layers, level, query, ef, deleted, metric)

SearchInit(entry, entry_score, deleted) ==
    [candidates |-> {[id |-> entry, score |-> entry_score]},
     results |-> IF entry \in deleted THEN {} ELSE {[id |-> entry, score |-> entry_score]},
     visited |-> {entry}]

\* Returns the results as a sequence of [id, score], best first.
search_layer(vectors, layers, level, entry, query, ef, deleted, metric) ==
    SortDesc(HeapSeq(SearchLoop(
        SearchInit(entry, compute_score(metric, query, vectors[entry]), deleted),
        vectors, layers, level, query, ef, deleted, metric).results))

\* Vec::push of empty lists until layers[lev] has a slot for id.
EnsureSlot(layers, lev, id) ==
    IF Len(layers[lev + 1]) >= id THEN layers
    ELSE [layers EXCEPT ![lev + 1] = @ \o [i \in 1..(id - Len(@)) |-> <<>>]]

Ids(items) == [k \in DOMAIN items |-> items[k].id]

\* A reverse edge that is never pruned.
PruneNeighbor_keepAll(layers, lev, nb, max_neighbors, vectors, metric) == layers

\* The re-pruning of an over-connected neighbour nb: its max_neighbors
\* best neighbours by score against nb's own vector.
PruneNeighbor(layers, lev, nb, max_neighbors, vectors, metric) ==
    IF Len(layers[lev + 1][nb]) > max_neighbors
    THEN [layers EXCEPT ![lev + 1][nb] =
            Ids(Take(SortDesc([k \in DOMAIN @ |->
                                 [id |-> @[k],
                                  score |-> compute_score(metric, vectors[nb], vectors[@[k]])]]),
                     max_neighbors))]
    ELSE layers

\* The reverse edges of the new node: push new_id on each neighbour's list.
RECURSIVE BackLinks(_, _, _, _, _, _, _, _)
BackLinks(layers, lev, new_id, neighbors, i, max_neighbors, vectors, metric) ==
    IF i > Len(neighbors) THEN layers
    ELSE BackLinks(
             PruneNeighbor([EnsureSlot(layers, lev, neighbors[i])
                               EXCEPT ![lev + 1][neighbors[i]] = Append(@, new_id)],
                           lev, neighbors[i], max_neighbors, vectors, metric),
             lev, new_id, neighbors, i + 1, max_neighbors, vectors, metric)

\* Linking the new node at one level: write its list, add the reverse edges.
ConnectLevel(ix, lev, new_id, neighbors, max_neighbors) ==
    [ix EXCEPT !.layers =
        BackLinks([EnsureSlot(@, lev, new_id) EXCEPT ![lev + 1][new_id] = neighbors],
                  lev, new_id, neighbors, 1, max_neighbors, ix.vectors, ix.metric)]

\* The greedy descent through the levels from lev down to stop + 1.
RECURSIVE Descend(_, _, _, _, _)
Descend(ix, lev, stop, ep, query) ==
    IF lev <= stop THEN ep
    ELSE Descend(ix, lev - 1, stop,
                 greedy_closest(ix.vectors, ix.layers, lev, ep, query, ix.deleted, ix.metric),
                 query)

\* insert's loop over the levels top down to 0: search, select, connect.
RECURSIVE LinkLevels(_, _, _, _, _)
RECURSIVE LinkWith(_, _, _, _, _, _)
LinkLevels(cur, lev, ep, new_id, query) ==
    IF lev < 0 THEN cur
    ELSE LinkWith(cur, lev, ep, new_id, query,
                  search_layer(cur.vectors, cur.layers, lev, ep, query,
                               cur.ef_construction, cur.deleted, cur.metric))
LinkWith(cur, lev, ep, new_id, query, candidates) ==
    LinkLevels(ConnectLevel(cur, lev, new_id,
                            Ids(Take(candidates, IF lev = 0 THEN cur.m * 2 ELSE cur.m)),
                            IF lev = 0 THEN cur.m * 2 ELSE cur.m),
               lev - 1,
               IF candidates # <<>> THEN candidates[1].id ELSE ep,
               new_id, query)

\* The pushes of a new node: vector, label maps, level, layer slots.
PushNode(ix, label, vec, level) ==
    LET new_id == Len(ix.vectors) + 1
        grown == ix.layers \o [l \in 1..(level + 1 - Len(ix.layers)) |-> <<>>]
    IN [ix EXCEPT !.vectors = Append(@, vec),
                  !.label_to_id = MapPut(@, label, new_id),
                  !.id_to_label = Append(@, label),
                  !.node_levels = Append(@, level),
                  !.layers = [l \in DOMAIN grown |->
                                IF l <= level + 1 /\ Len(grown[l]) < new_id
                                THEN grown[l] \o [i \in 1..(new_id - Len(grown[l])) |-> <<>>]
                                ELSE grown[l]]]

\* The promotion of the new node when its level exceeds max_level.
Promote(ix, linked, new_id, level) ==
    IF level > ix.max_level
    THEN [linked EXCEPT !.entry_point = new_id, !.max_level = level]
    ELSE linked

\* insert of a new label into a non-empty graph; pushed is the index with
\* the node pushed.
InsertLinked(ix, pushed, new_id, level) ==
    Promote(ix,
            LinkLevels(pushed,
                       IF level < ix.max_level THEN level ELSE ix.max_level,
                       Descend(pushed, ix.max_level, level, ix.entry_point,
                               pushed.vectors[new_id]),
                       new_id, pushed.vectors[new_id]),
            new_id, level)

\* An insert that makes a new node for a label that is live.
InsertVec_alwaysNew(ix, label, vec, level) ==
    IF ix.entry_point = 0
    THEN [PushNode(ix, label, vec, level) EXCEPT !.entry_point = Len(ix.vectors) + 1,
                                                 !.max_level = level]
    ELSE InsertLinked(ix, PushNode(ix, label, vec, level), Len(ix.vectors) + 1, level)

InsertVec(ix, label, vec, level) ==
    IF label \in DOMAIN ix.label_to_id
    THEN [ix EXCEPT !.vectors[ix.label_to_id[label]] = vec,
                    !.deleted = @ \ {ix.label_to_id[label]}]
    ELSE IF ix.entry_point = 0
         THEN [PushNode(ix, label, vec, level) EXCEPT !.entry_point = Len(ix.vectors) + 1,
                                                      !.max_level = level]
         ELSE InsertLinked(ix, PushNode(ix, label, vec, level), Len(ix.vectors) + 1, level)

\* insert with the level random_level() drew.
HnswIndex_insert(ix, label, vector, level) ==
    IF Len(vector) # ix.dimension THEN ix          \* Err(DimensionMismatch)
    ELSE InsertVec(ix, label,
                   IF ix.metric = "cosine" THEN normalize_vector(FVec(vector))
                   ELSE FVec(vector),
                   level)

HnswIndex_delete(ix, label) ==
    IF label \in DOMAIN ix.label_to_id
    THEN [ix EXCEPT !.deleted = @ \cup {ix.label_to_id[label]},
                    !.label_to_id = MapDel(@, label)]
    ELSE ix

IsLive(ix, items) == SelectSeq(items, LAMBDA c : c.id \notin ix.deleted)

\* search's tail: drop deleted ids, take top_k, map ids to labels, sort.
SearchResults(ix, candidates, top_k) ==
    SortDesc([k \in DOMAIN Take(IsLive(ix, candidates), top_k) |->
                [id |-> ix.id_to_label[Take(IsLive(ix, candidates), top_k)[k].id],
                 score |-> Take(IsLive(ix, candidates), top_k)[k].score]])

SearchFrom(ix, query_vec, top_k) ==
    SearchResults(ix,
                  search_layer(ix.vectors, ix.layers, 0,
                               Descend(ix, ix.max_level, 0, ix.entry_point, query_vec),
                               query_vec,
                               IF ix.ef_search > top_k THEN ix.ef_search ELSE top_k,
                               ix.deleted, ix.metric),
                  top_k)

HnswIndex_search(ix, query, top_k) ==
    IF Len(query) # ix.dimension THEN None
    ELSE IF ix.entry_point = 0 \/ top_k = 0 THEN <<>>
    ELSE SearchFrom(ix, IF ix.metric = "cosine" THEN normalize_vector(FVec(query))
                        ELSE FVec(query), top_k)

HnswIndex_len(ix) == Cardinality(DOMAIN ix.label_to_id)

\* ------------------------------------------- VectorIndex trait dispatch
\* Box<dyn VectorIndex>: the call goes to the implementation the box holds.
index_insert(ix, label, vector, level) ==
    IF ix.kind = "hnsw" THEN HnswIndex_insert(ix, label, vector, level)
    ELSE FlatIndex_insert(ix, label, vector)

index_delete(ix, label) ==
    IF ix.kind = "hnsw" THEN HnswIndex_delete(ix, label) ELSE FlatIndex_delete(ix, label)

index_search(ix, query, top_k) ==
    IF ix.kind = "hnsw" THEN HnswIndex_search(ix, query, top_k)
    ELSE FlatIndex_search(ix, query, top_k)

index_len(ix) == IF ix.kind = "hnsw" THEN HnswIndex_len(ix) ELSE FlatIndex_len(ix)

\* The labels an index counts in len(): its label map's keys.
LiveLabels(ix) ==
    IF ix.kind = "hnsw" THEN DOMAIN ix.label_to_id ELSE DOMAIN ix.label_to_idx

\* The match on cfg.index_type in create_index and delete_all_data.
NewIndexFor(dim, cfg) ==
    IF cfg.index_type = "hnsw" THEN HnswIndex_new(dim, cfg.distance)
    ELSE FlatIndex_new(dim, cfg.distance)

\* -------------------------------------------------------------- collection
\* Collection: records keyed by label, named indexes, the auto-id counter
\* and the optional persistence path (None for an in-memory collection).
Collection_new(config) ==
    [config |-> config, records |-> EmptyMap, indexes |-> EmptyMap,
     next_auto_id |-> 1, path |-> None]

\* The names of the collection's HNSW indexes (those that draw a level).
HnswNames(c) == {n \in DOMAIN c.indexes : c.indexes[n].index.kind = "hnsw"}

\* create_index without the replay of the existing records.
create_index_noReplay(c, name, cfg, order, lv) ==
    IF name \in DOMAIN c.indexes
    THEN [coll |-> c, result |-> "IndexAlreadyExists"]
    ELSE [coll |-> [c EXCEPT !.indexes =
                      MapPut(@, name, [config |-> cfg,
                                       index |-> NewIndexFor(dimension(c.config), cfg)])],
          result |-> "Ok"]

\* create_index.  `order` is the order records.values() yields the records
\* in (a HashMap's iteration order), `lv[label]` the level drawn for it.
\* Returns [coll, result]; result is "Ok" or the error.
create_index(c, name, cfg, order, lv) ==
    IF name \in DOMAIN c.indexes
    THEN [coll |-> c, result |-> "IndexAlreadyExists"]
    ELSE LET RECURSIVE replay(_, _)
             replay(ix, i) ==
                 IF i > Len(order) THEN ix
                 ELSE LET record == c.records[order[i]]
                      IN IF record.vector # <<>>
                         THEN replay(index_insert(ix, record.label, record.vector,
                                                  lv[order[i]]), i + 1)
                         ELSE replay(ix, i + 1)
             index == replay(NewIndexFor(dimension(c.config), cfg), 1)
         IN [coll |-> [c EXCEPT !.indexes = MapPut(@, name, [config |-> cfg, index |-> index])],
             result |-> "Ok"]

has_index(c, name) == name \in DOMAIN c.indexes

drop_index(c, name) == [c EXCEPT !.indexes = MapDel(@, name)]

\* An upsert that keeps the record already stored under the key.
UpsertOne_keepFirst(c, data, lv) ==
    LET has_pk == "id" \in DOMAIN data
        label == IF has_pk THEN value_to_u64(data.id) ELSE c.next_auto_id
        vector == IF "vec" \in DOMAIN data THEN value_to_f32_vec(data.vec) ELSE <<>>
    IN IF vector # <<>> /\ Len(vector) # dimension(c.config)
       THEN [coll |-> c, id |-> None, err |-> TRUE, got |-> Len(vector)]
       ELSE [coll |-> [c EXCEPT !.next_auto_id = IF has_pk THEN @ ELSE @ + 1,
                                !.records = IF label \in DOMAIN @ THEN @
                                            ELSE MapPut(@, label,
                                                   [label |-> label, vector |-> vector,
                                                    fields |-> MapDel(data, "vec")])],
             id |-> IF has_pk THEN data.id ELSE Num(label), err |-> FALSE, got |-> 0]

\* One iteration of upsert_data's loop over data_list.  Returns the
\* collection, the id pushed to the result, and whether the record was
\* rejected with DimensionMismatch (the early return).
UpsertOne(c, data, lv) ==
    LET pk_name == primary_key(c.config)
        vf == vector_field(c.config)
        dim == dimension(c.config)
        has_pk == pk_name # None /\ pk_name.str \in DOMAIN data
        label == IF has_pk THEN value_to_u64(data[pk_name.str]) ELSE c.next_auto_id
        auto == IF has_pk THEN c.next_auto_id ELSE c.next_auto_id + 1
        vector == IF vf # None /\ vf.name \in DOMAIN data
                  THEN value_to_f32_vec(data[vf.name]) ELSE <<>>
        fields == IF vf # None THEN MapDel(data, vf.name) ELSE data
        indexes == IF vector # <<>>
                   THEN [n \in DOMAIN c.indexes |->
                           [config |-> c.indexes[n].config,
                            index |-> index_insert(c.indexes[n].index, label, vector,
                                                   IF n \in DOMAIN lv THEN lv[n] ELSE 0)]]
                   ELSE c.indexes
        id_val == IF has_pk THEN data[pk_name.str] ELSE Num(label)
    IN IF vector # <<>> /\ Len(vector) # dim
       THEN [coll |-> [c EXCEPT !.next_auto_id = auto], id |-> None, err |-> TRUE,
             got |-> Len(vector)]
       ELSE [coll |-> [c EXCEPT !.next_auto_id = auto,
                                !.indexes = indexes,
                                !.records = MapPut(@, label,
                                     [label |-> label, vector |-> vector, fields |-> fields])],
             id |-> id_val, err |-> FALSE, got |-> 0]

\* An upsert_data that skips a record of the wrong dimension, applies the
\* records after it and reports the error at the end.
upsert_data_skipBad(c, data_list, lv) ==
    LET RECURSIVE loop(_, _, _, _)
        loop(cur, i, ids, bad) ==
            IF i > Len(data_list)
            THEN [coll |-> cur,
                  result |-> IF bad = 0 THEN [ids |-> ids]
                             ELSE [error |-> "DimensionMismatch",
                                   expected |-> dimension(c.config), got |-> bad]]
            ELSE LET one == UpsertOne(cur, data_list[i], lv[i])
                 IN IF one.err
                    THEN loop(one.coll, i + 1, ids, IF bad = 0 THEN one.got ELSE bad)
                    ELSE loop(one.coll, i + 1, Append(ids, one.id), bad)
    IN loop(c, 1, <<>>, 0)

\* upsert_data.  lv[i][n] is the level index n draws for the i-th record.
\* Returns [coll, result]; result is [ids |-> <<...>>] or the error record.
upsert_data(c, data_list, lv) ==
    LET RECURSIVE loop(_, _, _)
        loop(cur, i, ids) ==
            IF i > Len(data_list) THEN [coll |-> cur, result |-> [ids |-> ids]]
            ELSE LET one == UpsertOne(cur, data_list[i], lv[i])
                 IN IF one.err
                    THEN [coll |-> one.coll,
                          result |-> [error |-> "DimensionMismatch",
                                      expected |-> dimension(c.config), got |-> one.got]]
                    ELSE loop(one.coll, i + 1, Append(ids, one.id))
    IN loop(c, 1, <<>>)

\* fetch_data that returns the stored fields without the vector.
FetchOne_noVector(c, pk) ==
    IF value_to_u64(pk) \in DOMAIN c.records
    THEN c.records[value_to_u64(pk)].fields
    ELSE None

\* fetch_data: one entry per primary key, None for a missing record.
FetchOne(c, pk) ==
    LET label == value_to_u64(pk)
        vf == vector_field(c.config)
    IN IF label \in DOMAIN c.records
       THEN LET r == c.records[label]
            IN IF vf # None THEN MapPut(r.fields, vf.name, f32_vec_to_value(r.vector))
               ELSE r.fields
       ELSE None

fetch_data(c, primary_keys) == [i \in DOMAIN primary_keys |-> FetchOne(c, primary_keys[i])]

\* A delete that removes the record with the smallest label when the key
\* is not stored.
DeleteOne_orOldest(c, pk) ==
    LET label == IF value_to_u64(pk) \in DOMAIN c.records \/ DOMAIN c.records = {}
                 THEN value_to_u64(pk)
                 ELSE CHOOSE l \in DOMAIN c.records : \A k \in DOMAIN c.records : l <= k
    IN IF label \in DOMAIN c.records
       THEN [c EXCEPT !.records = MapDel(@, label),
                      !.indexes = [n \in DOMAIN c.indexes |->
                                     [config |-> c.indexes[n].config,
                                      index |-> index_delete(c.indexes[n].index, label)]]]
       ELSE c

\* delete_data that forgets the indexes.
DeleteOne_recordsOnly(c, pk) ==
    IF value_to_u64(pk) \in DOMAIN c.records
    THEN [c EXCEPT !.records = MapDel(@, value_to_u64(pk))]
    ELSE c

DeleteOne(c, pk) ==
    LET label == value_to_u64(pk)
    IN IF label \in DOMAIN c.records
       THEN [c EXCEPT !.records = MapDel(@, label),
                      !.indexes = [n \in DOMAIN c.indexes |->
                                     [config |-> c.indexes[n].config,
                                      index |-> index_delete(c.indexes[n].index, label)]]]
       ELSE c

delete_data(c, primary_keys) ==
    LET RECURSIVE loop(_, _)
        loop(cur, i) == IF i > Len(primary_keys) THEN cur
                        ELSE loop(DeleteOne(cur, primary_keys[i]), i + 1)
    IN loop(c, 1)

\* A delete_all_data that clears the records and leaves the indexes alone.
delete_all_data_keepIndexes(c) == [c EXCEPT !.records = EmptyMap]

delete_all_data(c) ==
    [c EXCEPT !.records = EmptyMap,
              !.indexes = [n \in DOMAIN c.indexes |->
                             [config |-> c.indexes[n].config,
                              index |-> NewIndexFor(dimension(c.config),
                                                    c.indexes[n].config)]]]

count(c) == Cardinality(DOMAIN c.records)

\* label_to_pk: the stored primary-key value, else the label as a number.
label_to_pk(c, label) ==
    LET pk_name == primary_key(c.config)
    IN IF /\ pk_name # None
          /\ label \in DOMAIN c.records
          /\ pk_name.str \in DOMAIN c.records[label].fields
       THEN c.records[label].fields[pk_name.str]
       ELSE Num(label)

\* A loop that takes the first limit hits whatever the offset.
SearchItems_noOffset(c, idx_result, limit, offset) ==
    [k \in 1..(IF Len(idx_result) < limit THEN Len(idx_result) ELSE limit) |->
       [id |-> label_to_pk(c, idx_result[k].id),
        score |-> idx_result[k].score,
        fields |-> IF idx_result[k].id \in DOMAIN c.records
                   THEN c.records[idx_result[k].id].fields
                   ELSE EmptyMap]]

\* The loop of search_by_vector over idx_result, under records.read():
\* skips offset hits, takes up to limit, and joins each with its record.
SearchItems(c, idx_result, limit, offset) ==
    LET n == IF Len(idx_result) - offset < limit
             THEN (IF Len(idx_result) > offset THEN Len(idx_result) - offset ELSE 0)
             ELSE limit
    IN [k \in 1..n |->
          [id |-> label_to_pk(c, idx_result[k + offset].id),
           score |-> idx_result[k + offset].score,
           fields |-> IF idx_result[k + offset].id \in DOMAIN c.records
                      THEN c.records[idx_result[k + offset].id].fields
                      ELSE EmptyMap]]

\* search_by_vector with filters = None.  Returns [data |-> <<items>>] or
\* [error |-> ..].
search_by_vector(c, index_name, dense_vector, limit, offset) ==
    IF index_name \notin DOMAIN c.indexes THEN [error |-> "IndexNotFound"]
    ELSE IF Len(dense_vector) # c.indexes[index_name].index.dimension
         THEN [error |-> "DimensionMismatch"]     \* ci.index.search(..)?
    ELSE [data |-> SearchItems(c, index_search(c.indexes[index_name].index, dense_vector,
                                               limit + offset),
                               limit, offset)]

\* ------------------------------------------------------------------ filter
\* A JSON object is [obj |-> map]; a string is looked into through its
\* characters, given by Chars for the strings of more than one character.
Obj(m) == [obj |-> m]
IsObj(v) == DOMAIN v = {"obj"}
Chars(s) ==
    CASE s = "^A" -> <<"^", "A">>
      [] s = "A$" -> <<"A", "$">>
      [] s = "^(A|a)" -> <<"^", "(", "A", "|", "a", ")">>
      [] s = "^A|B$" -> <<"^", "A", "|", "B", "$">>
      [] s = "AB" -> <<"A", "B">>
      [] s = "" -> <<>>
      [] OTHER -> <<s>>
\* The byte of a character.
Byte(ch) ==
    CASE ch = "$" -> 36 [] ch = "(" -> 40 [] ch = ")" -> 41 [] ch = "A" -> 65
      [] ch = "B" -> 66 [] ch = "^" -> 94 [] ch = "a" -> 97 [] ch = "|" -> 124
      [] OTHER -> 120

\* obj.get(key).cloned()
ObjGet(obj, key) == IF key \in DOMAIN obj THEN obj[key] ELSE None
\* obj.get("field")?.as_str()? succeeds.
HasStr(obj, key) == key \in DOMAIN obj /\ IsStr(obj[key])

RECURSIVE Filter_from_json(_), FilterMapFromJson(_, _)
\* A collect that stops after the first condition.
FilterMapFromJson_firstOnly(conds, i) ==
    IF i > Len(conds) THEN <<>>
    ELSE LET f == Filter_from_json(conds[i])
         IN IF f = None THEN <<>> ELSE <<f>>

\* conds.iter().filter_map(Filter::from_json).collect(), from position i.
FilterMapFromJson(conds, i) ==
    IF i > Len(conds) THEN <<>>
    ELSE LET f == Filter_from_json(conds[i])
         IN IF f = None THEN FilterMapFromJson(conds, i + 1)
            ELSE <<f>> \o FilterMapFromJson(conds, i + 1)

\* Filter::from_json: the Filter, or None.
Filter_from_json(v) ==
    IF ~IsObj(v) THEN None
    ELSE IF ~HasStr(v.obj, "op") THEN None
    ELSE LET obj == v.obj
             op == obj.op.str
             conds == "conds" \in DOMAIN obj /\ IsArr(obj.conds)
         IN CASE op \in {"must", "must_not"} ->
                   IF HasStr(obj, "field") /\ conds
                   THEN [kind |-> IF op = "must" THEN "Must" ELSE "MustNot",
                         field |-> obj.field.str, values |-> obj.conds.arr]
                   ELSE None
              [] op = "range" ->
                   IF HasStr(obj, "field")
                   THEN [kind |-> "Range", field |-> obj.field.str,
                         gt |-> ObjGet(obj, "gt"), gte |-> ObjGet(obj, "gte"),
                         lt |-> ObjGet(obj, "lt"), lte |-> ObjGet(obj, "lte")]
                   ELSE None
              [] op = "range_out" ->
                   IF HasStr(obj, "field")
                   THEN [kind |-> "RangeOut", field |-> obj.field.str,
                         gte |-> ObjGet(obj, "gte"), lte |-> ObjGet(obj, "lte")]
                   ELSE None
              [] op = "prefix" ->
                   IF HasStr(obj, "field") /\ HasStr(obj, "prefix")
                   THEN [kind |-> "Prefix", field |-> obj.field.str,
                         prefix |-> obj.prefix.str]
                   ELSE None
              [] op = "contains" ->
                   IF HasStr(obj, "field") /\ HasStr(obj, "substring")
                   THEN [kind |-> "Contains", field |-> obj.field.str,
                         substring |-> obj.substring.str]
                   ELSE None
              [] op = "regex" ->
                   IF HasStr(obj, "field") /\ HasStr(obj, "pattern")
                   THEN [kind |-> "Regex", field |-> obj.field.str,
                         pattern |-> obj.pattern.str]
                   ELSE None
              [] op \in {"and", "or"} ->
                   IF conds
                   THEN [kind |-> IF op = "and" THEN "And" ELSE "Or",
                         filters |-> FilterMapFromJson(obj.conds.arr, 1)]
                   ELSE None
              [] OTHER -> None

\* values_match: numbers by value, anything else by equality.
values_match(a, b) ==
    IF IsNumber(a) /\ IsNumber(b) THEN as_f64(a) = as_f64(b) ELSE a = b

\* Some(Ordering::..).
Less == [ord |-> "Less"]
Equal == [ord |-> "Equal"]
Greater == [ord |-> "Greater"]

\* Ordering of two byte strings, given as character sequences.
RECURSIVE StrCmp(_, _)
StrCmp(a, b) ==
    IF a = <<>> THEN (IF b = <<>> THEN Equal ELSE Less)
    ELSE IF b = <<>> THEN Greater
    ELSE IF Byte(Head(a)) < Byte(Head(b)) THEN Less
    ELSE IF Byte(Head(a)) > Byte(Head(b)) THEN Greater
    ELSE StrCmp(Tail(a), Tail(b))

\* compare_values: Some(Ordering), or None for values that do not compare.
compare_values(a, b) ==
    IF IsNumber(a) /\ IsNumber(b)
    THEN (IF as_f64(a) < as_f64(b) THEN Less
          ELSE IF as_f64(a) > as_f64(b) THEN Greater ELSE Equal)
    ELSE IF IsStr(a) /\ IsStr(b) THEN StrCmp(Chars(a.str), Chars(b.str))
    ELSE None

range_check(val, gt, gte, lt, lte) ==
    /\ gt # None => compare_values(val, gt) = Greater
    /\ gte # None => compare_values(val, gte) # Less /\ compare_values(val, gte) # None
    /\ lt # None => compare_values(val, lt) = Less
    /\ lte # None => compare_values(val, lte) # Greater /\ compare_values(val, lte) # None

\* str::starts_with, ends_with, contains on character sequences.
starts_with(s, p) == Len(p) <= Len(s) /\ SubSeq(s, 1, Len(p)) = p
ends_with(s, p) == Len(p) <= Len(s) /\ SubSeq(s, Len(s) - Len(p) + 1, Len(s)) = p
str_contains(s, p) == \E i \in 1..(Len(s) - Len(p) + 1) : SubSeq(s, i, i + Len(p) - 1) = p

\* str::split('|'): the pieces between the bars.
RECURSIVE split(_, _)
split(s, cur) ==
    IF s = <<>> THEN <<cur>>
    ELSE IF Head(s) = "|" THEN <<cur>> \o split(Tail(s), <<>>)
    ELSE split(Tail(s), Append(cur, Head(s)))

\* str::trim_matches(ch): ch stripped from both ends.
RECURSIVE trim_matches(_, _)
trim_matches(s, ch) ==
    IF s # <<>> /\ Head(s) = ch THEN trim_matches(Tail(s), ch)
    ELSE IF s # <<>> /\ s[Len(s)] = ch THEN trim_matches(SubSeq(s, 1, Len(s) - 1), ch)
    ELSE s

simple_regex_match(s, pattern) ==
    IF starts_with(pattern, <<"^">>) /\ ends_with(pattern, <<"$">>)
    THEN LET inner == SubSeq(pattern, 2, Len(pattern) - 1)
             alts == split(inner, <<>>)
         IN IF str_contains(inner, <<"|">>)
            THEN \E i \in DOMAIN alts : s = trim_matches(trim_matches(alts[i], "("), ")")
            ELSE s = inner
    ELSE IF starts_with(pattern, <<"^">>)
    THEN LET prefix == Tail(pattern)
             alts == split(SubSeq(prefix, 2, Len(prefix) - 1), <<>>)
         IN IF starts_with(prefix, <<"(">>) /\ ends_with(prefix, <<")">>)
            THEN \E i \in DOMAIN alts : starts_with(s, alts[i])
            ELSE starts_with(s, prefix)
    ELSE IF ends_with(pattern, <<"$">>)
    THEN ends_with(s, SubSeq(pattern, 1, Len(pattern) - 1))
    ELSE str_contains(s, pattern)

\* Filter::matches.
RECURSIVE matches(_, _)
matches(f, fields) ==
    CASE f.kind \in {"And", "Or"} ->
           IF f.kind = "And"
           THEN \A i \in DOMAIN f.filters : matches(f.filters[i], fields)
           ELSE \E i \in DOMAIN f.filters : matches(f.filters[i], fields)
      [] f.field \notin DOMAIN fields -> f.kind = "MustNot"
      [] f.kind \in {"Must", "MustNot"} ->
           LET field_val == fields[f.field]
               any == IF IsArr(field_val)
                      THEN \E i \in DOMAIN f.values, j \in DOMAIN field_val.arr :
                              field_val.arr[j] = f.values[i]
                      ELSE \E i \in DOMAIN f.values : values_match(field_val, f.values[i])
           IN IF f.kind = "Must" THEN any ELSE ~any
      [] f.kind = "Range" -> range_check(fields[f.field], f.gt, f.gte, f.lt, f.lte)
      [] f.kind = "RangeOut" ->
           \/ f.gte # None /\ compare_values(fields[f.field], f.gte) = Less
           \/ f.lte # None /\ compare_values(fields[f.field], f.lte) = Greater
      [] f.kind = "Prefix" ->
           IsStr(fields[f.field]) /\ starts_with(Chars(fields[f.field].str), Chars(f.prefix))
      [] f.kind = "Contains" ->
           IsStr(fields[f.field]) /\ str_contains(Chars(fields[f.field].str), Chars(f.substring))
      [] f.kind = "Regex" ->
           IsStr(fields[f.field]) /\ simple_regex_match(Chars(fields[f.field].str), Chars(f.pattern))

\* The loop of search_by_vector's filter path over idx_result from position
\* i, with `skipped` survivors skipped and `data` built so far.
RECURSIVE FilterLoop(_, _, _, _, _, _, _, _)
FilterLoop(c, filter, idx_result, limit, offset, i, skipped, data) ==
    IF i > Len(idx_result) THEN data
    ELSE LET id == idx_result[i].id
         IN IF id \in DOMAIN c.records /\ matches(filter, c.records[id].fields)
            THEN IF skipped < offset
                 THEN FilterLoop(c, filter, idx_result, limit, offset, i + 1, skipped + 1, data)
                 ELSE IF Len(data) >= limit THEN data
                 ELSE FilterLoop(c, filter, idx_result, limit, offset, i + 1, skipped,
                                 Append(data, [id |-> label_to_pk(c, id),
                                               score |-> idx_result[i].score,
                                               fields |-> c.records[id].fields]))
            ELSE FilterLoop(c, filter, idx_result, limit, offset, i + 1, skipped, data)

\* A filter path that asks the index for limit + offset candidates only.
search_by_vector_filtered_noOverfetch(c, index_name, dense_vector, limit, offset, filters) ==
    LET filter == IF filters = None THEN None ELSE Filter_from_json(filters)
    IN IF index_name \notin DOMAIN c.indexes THEN [error |-> "IndexNotFound"]
       ELSE IF filter = None
       THEN search_by_vector(c, index_name, dense_vector, limit, offset)
       ELSE IF Len(dense_vector) # c.indexes[index_name].index.dimension
       THEN [error |-> "DimensionMismatch"]
       ELSE [data |-> FilterLoop(c, filter,
                                 index_search(c.indexes[index_name].index, dense_vector,
                                              limit + offset),
                                 limit, offset, 1, 0, <<>>)]

\* A search that returns nothing when the filter value does not parse.
search_by_vector_filtered_strict(c, index_name, dense_vector, limit, offset, filters) ==
    LET filter == IF filters = None THEN None ELSE Filter_from_json(filters)
    IN IF index_name \notin DOMAIN c.indexes THEN [error |-> "IndexNotFound"]
       ELSE IF filters = None
       THEN search_by_vector(c, index_name, dense_vector, limit, offset)
       ELSE IF filter = None THEN [data |-> <<>>]
       ELSE IF Len(dense_vector) # c.indexes[index_name].index.dimension
       THEN [error |-> "DimensionMismatch"]
       ELSE [data |-> FilterLoop(c, filter,
                                 index_search(c.indexes[index_name].index, dense_vector,
                                              (limit + offset) * 10),
                                 limit, offset, 1, 0, <<>>)]

\* search_by_vector with filters: Option<&Value>; a value from_json does
\* not parse counts as no filter.
search_by_vector_filtered(c, index_name, dense_vector, limit, offset, filters) ==
    LET filter == IF filters = None THEN None ELSE Filter_from_json(filters)
    IN IF index_name \notin DOMAIN c.indexes THEN [error |-> "IndexNotFound"]
       ELSE IF filter = None
       THEN search_by_vector(c, index_name, dense_vector, limit, offset)
       ELSE IF Len(dense_vector) # c.indexes[index_name].index.dimension
       THEN [error |-> "DimensionMismatch"]
       ELSE [data |-> FilterLoop(c, filter,
                                 index_search(c.indexes[index_name].index, dense_vector,
                                              (limit + offset) * 10),
                                 limit, offset, 1, 0, <<>>)]
\* A directory tree: the set of directories and the regular files with
\* their contents.  A path is a sequence of names; a file's content is a
\* sequence of written pieces (<<>> is the empty file).
EmptyDisk == [dirs |-> {}, files |-> EmptyMap]
IsPrefix(p, q) == Len(p) <= Len(q) /\ SubSeq(q, 1, Len(p)) = p
Join(path, name) == Append(path, name)

create_dir_all(d, path) ==
    [d EXCEPT !.dirs = @ \cup {SubSeq(path, 1, k) : k \in 1..Len(path)}]

\* File::create: the file exists and is empty (an existing one is truncated).
File_create(d, path) == [d EXCEPT !.files = MapPut(@, path, <<>>)]
\* write_all on the open file: the pieces are appended.
write_all(d, path, pieces) == [d EXCEPT !.files[path] = @ \o pieces]

\* The file-system calls a save makes, as steps a crash can fall between.
MkdirStep(path) == [call |-> "create_dir_all", path |-> path, pieces |-> <<>>]
CreateStep(path) == [call |-> "File::create", path |-> path, pieces |-> <<>>]
WriteStep(path, pieces) == [call |-> "write_all", path |-> path, pieces |-> pieces]
\* std::fs::write(path, bytes): File::create, then write_all(bytes).
fs_write_steps(path, content) == <<CreateStep(path), WriteStep(path, content)>>

RunStep(d, st) ==
    CASE st.call = "create_dir_all" -> create_dir_all(d, st.path)
      [] st.call = "File::create" -> File_create(d, st.path)
      [] OTHER -> write_all(d, st.path, st.pieces)

path_exists(d, path) == path \in d.dirs \/ path \in DOMAIN d.files

RECURSIVE RunSteps(_, _)
RunSteps(d, steps) ==
    IF steps = <<>> THEN d
    ELSE LET after == RunStep(d, Head(steps))
         \* every call leaves the directory or file it names in existence
         IN CASE path_exists(after, Head(steps).path) -> RunSteps(after, Tail(steps))

remove_dir_all(d, path) ==
    [dirs |-> {q \in d.dirs : ~IsPrefix(path, q)},
     files |-> [q \in {f \in DOMAIN d.files : ~IsPrefix(path, f)} |-> d.files[q]]]

\* ------------------------------------------------------------ serialization
\* serde_json::to_vec of a value: one piece holding the document.
JsonDoc(type, v) == << [json |-> type, v |-> v] >>
\* serde_json::from_slice::<type>: Ok(value), or Err when the bytes are not
\* one complete document of that type.
FromJson(type, content) ==
    IF Len(content) = 1 /\ DOMAIN content[1] = {"json", "v"} /\ content[1].json = type
    THEN [ok |-> TRUE, v |-> content[1].v] ELSE [ok |-> FALSE]

\* Serializer::serialize_f32: a finite float is written as a number, an
\* infinite one as null.
serialize_f32(x) == IF is_finite(x) THEN Flt(x) ELSE None

\* #[derive(Serialize)] for Record.
Record_serialize(r) ==
    [label |-> r.label,
     vector |-> [i \in DOMAIN r.vector |-> serialize_f32(r.vector[i])],
     fields |-> r.fields]

\* #[derive(Deserialize)] for Record: Err when an element of "vector" is
\* not a number (null is not an f32).
Record_deserialize(j) ==
    IF \A i \in DOMAIN j.vector : IsFlt(j.vector[i])
    THEN [ok |-> TRUE,
          v |-> [label |-> j.label,
                 vector |-> [i \in DOMAIN j.vector |-> f64_as_f32(j.vector[i].flt)],
                 fields |-> j.fields]]
    ELSE [ok |-> FALSE]

\* Vec<&Record> from records.values(): a JSON array of the records.
RecordsToJson(records) ==
    JsonDoc("Vec<Record>", {Record_serialize(records[l]) : l \in DOMAIN records})

\* serde_json::from_slice::<Vec<Record>>: Err when the bytes are not such
\* an array or one of its records does not deserialize.
RecordsFromJson(content) ==
    LET doc == FromJson("Vec<Record>", content)
    IN IF doc.ok /\ \A j \in doc.v : Record_deserialize(j).ok
       THEN [ok |-> TRUE, v |-> {Record_deserialize(j).v : j \in doc.v}]
       ELSE [ok |-> FALSE]

\* flat_index.bin: dim | count | (label, vector) * count | metric, one piece
\* per write_all call.
FlatIndex_save_bytes(ix) ==
    LET RECURSIVE rows(_)
        rows(i) == IF i > Len(ix.labels) THEN <<>>
                   ELSE <<[u64 |-> ix.labels[i]]>>
                        \o [k \in 1..Len(ix.vectors[i].num) |->
                              [f32 |-> ix.vectors[i].num[k], den |-> ix.vectors[i].den]]
                        \o rows(i + 1)
        metric_byte == CASE ix.metric = "cosine" -> 0
                         [] ix.metric = "l2" -> 1
                         [] OTHER -> 2
    IN <<[u32 |-> ix.dimension], [u64 |-> Len(ix.labels)]>> \o rows(1) \o <<[u8 |-> metric_byte]>>

\* hnsw_index.json: HnswSerData (neither the deleted set nor label_to_id).
HnswIndex_save_bytes(ix) ==
    JsonDoc("HnswSerData",
            [dimension |-> ix.dimension, m |-> ix.m, ef_construction |-> ix.ef_construction,
             ef_search |-> ix.ef_search, metric |-> ix.metric,
             vectors |-> [i \in DOMAIN ix.vectors |->
                            [k \in DOMAIN ix.vectors[i].num |->
                               IF is_finite(ix.vectors[i].num[k])
                               THEN [f32 |-> ix.vectors[i].num[k], den |-> ix.vectors[i].den]
                               ELSE None]],
             id_to_label |-> ix.id_to_label, node_levels |-> ix.node_levels,
             layers |-> ix.layers, entry_point |-> ix.entry_point,
             max_level |-> ix.max_level])

\* The label map load rebuilds from id_to_label: a label stored under
\* several ids keeps the last of them.
RebuildLabelToId(id_to_label) ==
    [label \in {id_to_label[i] : i \in DOMAIN id_to_label} |->
       SetMax({i \in DOMAIN id_to_label : id_to_label[i] = label})]

\* HnswIndex::load from the bytes of hnsw_index.json: Err (the index as it
\* was) when the bytes are not an HnswDeserData document, where null is no
\* f32; else every field from the document, an empty deleted set and the
\* rebuilt label map.
HnswIndex_load(ix, content) ==
    LET doc == FromJson("HnswSerData", content)
    IN IF ~doc.ok THEN ix
       ELSE IF \E i \in DOMAIN doc.v.vectors : \E k \in DOMAIN doc.v.vectors[i] :
                  doc.v.vectors[i][k] = None
       THEN ix
       ELSE [ix EXCEPT !.dimension = doc.v.dimension, !.m = doc.v.m,
                       !.ef_construction = doc.v.ef_construction,
                       !.ef_search = doc.v.ef_search, !.metric = doc.v.metric,
                       !.vectors = [i \in DOMAIN doc.v.vectors |->
                                      [num |-> [k \in DOMAIN doc.v.vectors[i] |->
                                                  doc.v.vectors[i][k].f32],
                                       den |-> doc.v.vectors[i][1].den]],
                       !.id_to_label = doc.v.id_to_label,
                       !.node_levels = doc.v.node_levels,
                       !.layers = doc.v.layers,
                       !.entry_point = doc.v.entry_point,
                       !.max_level = doc.v.max_level,
                       !.deleted = {},
                       !.label_to_id = RebuildLabelToId(doc.v.id_to_label)]

IndexFileName(ix) == IF ix.kind = "hnsw" THEN "hnsw_index.json" ELSE "flat_index.bin"
index_save_bytes(ix) ==
    IF ix.kind = "hnsw" THEN HnswIndex_save_bytes(ix) ELSE FlatIndex_save_bytes(ix)

\* VectorIndex::save(path): create the directory, create the index file,
\* then one write_all per piece.
index_save_steps(ix, path) ==
    <<MkdirStep(path), CreateStep(Join(path, IndexFileName(ix)))>>
    \o [k \in DOMAIN index_save_bytes(ix) |->
          WriteStep(Join(path, IndexFileName(ix)), <<index_save_bytes(ix)[k]>>)]

\* ------------------------------------------------- collection persistence
ConfigPath(path) == Join(path, "collection_config.json")
RecordsPath(path) == Join(path, "records.json")
IndexDir(path, name) == Join(Join(path, "indexes"), name)

\* indexes.iter(): the indexes in the map's iteration order.
RECURSIVE SaveAllSteps(_, _, _)
SaveAllSteps(c, path, names) ==
    IF names = {} THEN <<>>
    ELSE index_save_steps(c.indexes[CHOOSE x \in names : TRUE].index,
                          IndexDir(path, CHOOSE x \in names : TRUE))
         \o SaveAllSteps(c, path, names \ {CHOOSE x \in names : TRUE})

\* Collection::persist: config, then records, then every index.
persist_steps(c, path) ==
    <<MkdirStep(path)>>
    \o fs_write_steps(ConfigPath(path), JsonDoc("CollectionConfig", c.config))
    \o fs_write_steps(RecordsPath(path), RecordsToJson(c.records))
    \o SaveAllSteps(c, path, DOMAIN c.indexes)

persist(c, path, d) == RunSteps(d, persist_steps(c, path))

\* Collection::close: persist when the collection has a path.
close(c, d) == IF c.path # None THEN persist(c, c.path.p, d) ELSE d

\* impl Drop for Collection: the same persist, when the value is dropped.
drop(c, d) == IF c.path # None THEN persist(c, c.path.p, d) ELSE d

\* Collection::try_recover: repopulate the record map from records.json.
try_recover(c, d) ==
    IF c.path = None THEN c
    ELSE LET records_path == RecordsPath(c.path.p)
         IN IF records_path \notin DOMAIN d.files THEN c
            ELSE LET parsed == RecordsFromJson(d.files[records_path])
                     records_vec == parsed.v
                 IN IF ~parsed.ok THEN c
                    ELSE [c EXCEPT
                            !.records = [l \in {r.label : r \in records_vec} |->
                                           CHOOSE r \in records_vec : r.label = l],
                            !.next_auto_id = SetMax({r.label : r \in records_vec}) + 1]

\* Collection::with_path: returns the collection and the disk it leaves.
with_path(config, path, d) ==
    LET d1 == create_dir_all(d, path)
        coll == [Collection_new(config) EXCEPT !.path = [p |-> path]]
    IN [coll |-> try_recover(coll, d1), disk |-> d1]

\* Collection::drop_collection: close, then remove the directory.
drop_collection(c, d) ==
    LET d1 == close(c, d)
    IN IF c.path # None THEN remove_dir_all(d1, c.path.p) ELSE d1

\* ---------------------------------------------------------------- project
\* Project: its name, its optional path and the collections map.
Project_new(name) == [name |-> name, path |-> None, collections |-> EmptyMap]

\* read_dir(base): the directories directly under base.
read_dir(d, base) == {q \in d.dirs : Len(q) = Len(base) + 1 /\ IsPrefix(base, q)}

\* Project::load_existing over the entries in the order read_dir yields
\* them.  HashMap::insert hands back a replaced Collection, which is dropped.
RECURSIVE LoadEntries(_, _, _, _)
LoadEntries(colls, d, order, i) ==
    IF i > Len(order) THEN [collections |-> colls, disk |-> d]
    ELSE IF ConfigPath(order[i]) \notin DOMAIN d.files
         THEN LoadEntries(colls, d, order, i + 1)
    ELSE IF ~FromJson("CollectionConfig", d.files[ConfigPath(order[i])]).ok
         THEN LoadEntries(colls, d, order, i + 1)
    ELSE LET config == FromJson("CollectionConfig", d.files[ConfigPath(order[i])]).v
             opened == with_path(config, order[i], d)
         IN LoadEntries(MapPut(colls, config.name, opened.coll),
                        IF config.name \in DOMAIN colls
                        THEN drop(colls[config.name], opened.disk) ELSE opened.disk,
                        order, i + 1)

\* Project::with_path.  Returns the project and the disk it leaves.
Project_with_path(name, path, d, order) ==
    LET loaded == LoadEntries(EmptyMap, create_dir_all(d, path), order, 1)
    IN [proj |-> [name |-> name, path |-> [p |-> path], collections |-> loaded.collections],
        disk |-> loaded.disk]

has_collection(p, name) == name \in DOMAIN p.collections

\* Project::create_collection.  Returns the project, the disk and the result.
Project_create_collection(p, name, config, d) ==
    IF name \in DOMAIN p.collections
    THEN [proj |-> p, disk |-> d, result |-> "CollectionAlreadyExists"]
    ELSE IF p.path # None
         THEN [proj |-> [p EXCEPT !.collections =
                           MapPut(@, name, with_path(config, Join(p.path.p, name), d).coll)],
               disk |-> with_path(config, Join(p.path.p, name), d).disk,
               result |-> "Ok"]
         ELSE [proj |-> [p EXCEPT !.collections = MapPut(@, name, Collection_new(config))],
               disk |-> d, result |-> "Ok"]

\* Project::drop_collection: the entry is removed from the map, the removed
\* Collection runs drop_collection and is then dropped as the call returns.
Project_drop_collection(p, name, d) ==
    IF name \in DOMAIN p.collections
    THEN [proj |-> [p EXCEPT !.collections = MapDel(@, name)],
          disk |-> drop(p.collections[name], drop_collection(p.collections[name], d))]
    ELSE [proj |-> p, disk |-> d]

\* Project::close: close every collection.
RECURSIVE CloseAll(_, _, _)
CloseAll(p, names, d) ==
    IF names = {} THEN d
    ELSE CloseAll(p, names \ {CHOOSE x \in names : TRUE},
                  close(p.collections[CHOOSE x \in names : TRUE], d))
Project_close(p, d) == CloseAll(p, DOMAIN p.collections, d)

\* impl Drop for Project: close(), then the map's Collections are dropped.
RECURSIVE DropAll(_, _, _)
DropAll(p, names, d) ==
    IF names = {} THEN d
    ELSE DropAll(p, names \ {CHOOSE x \in names : TRUE},
                 drop(p.collections[CHOOSE x \in names : TRUE], d))
Project_drop(p, d) == DropAll(p, DOMAIN p.collections, Project_close(p, d))

\* ----------------------------------------------------------- project group
\* ProjectGroup: the optional root path and the projects by name.
ProjectGroup_new ==
    [path |-> None, projects |-> [n \in {"default"} |-> Project_new("default")]]

\* ProjectGroup::load_existing over the entries in the order read_dir yields
\* them; an entry's file name is the project's name, and orders[entry] is
\* the order in which that project's own load_existing reads its directory.
RECURSIVE LoadProjects(_, _, _, _, _)
LoadProjects(projects, d, order, orders, i) ==
    IF i > Len(order) THEN [projects |-> projects, disk |-> d]
    ELSE LET name == order[i][Len(order[i])]
             opened == Project_with_path(name, order[i], d, orders[order[i]])
         IN LoadProjects(MapPut(projects, name, opened.proj), opened.disk, order, orders, i + 1)

\* An open that loads what is there and does not add "default".
ProjectGroup_with_path_noDefault(path, d, order, orders) ==
    LET loaded == LoadProjects(EmptyMap, create_dir_all(d, path), order, orders, 1)
    IN [group |-> [path |-> [p |-> path], projects |-> loaded.projects],
        disk |-> loaded.disk]

\* ProjectGroup::with_path: load what is there, then make sure of "default".
ProjectGroup_with_path(path, d, order, orders) ==
    LET loaded == LoadProjects(EmptyMap, create_dir_all(d, path), order, orders, 1)
        default_path == Join(path, "default")
        made == Project_with_path("default", default_path,
                                  create_dir_all(loaded.disk, default_path), <<>>)
    IN IF "default" \in DOMAIN loaded.projects
       THEN [group |-> [path |-> [p |-> path], projects |-> loaded.projects],
             disk |-> loaded.disk]
       ELSE [group |-> [path |-> [p |-> path],
                        projects |-> MapPut(loaded.projects, "default", made.proj)],
             disk |-> made.disk]

has_project(g, name) == name \in DOMAIN g.projects

\* A create_project that opens the project anew whether or not the name is
\* taken.
ProjectGroup_create_project_replace(g, name, d, order) ==
    IF g.path # None
    THEN LET opened == Project_with_path(name, Join(g.path.p, name),
                                         create_dir_all(d, Join(g.path.p, name)), order)
         IN [group |-> [g EXCEPT !.projects = MapPut(@, name, opened.proj)],
             disk |-> opened.disk, result |-> "Ok"]
    ELSE [group |-> [g EXCEPT !.projects = MapPut(@, name, Project_new(name))],
          disk |-> d, result |-> "Ok"]

\* ProjectGroup::create_project; order is the order in which the new
\* project's load_existing reads its directory.
ProjectGroup_create_project(g, name, d, order) ==
    IF name \in DOMAIN g.projects
    THEN [group |-> g, disk |-> d, result |-> "ProjectAlreadyExists"]
    ELSE IF g.path # None
         THEN LET opened == Project_with_path(name, Join(g.path.p, name),
                                              create_dir_all(d, Join(g.path.p, name)), order)
              IN [group |-> [g EXCEPT !.projects = MapPut(@, name, opened.proj)],
                  disk |-> opened.disk, result |-> "Ok"]
         ELSE [group |-> [g EXCEPT !.projects = MapPut(@, name, Project_new(name))],
               disk |-> d, result |-> "Ok"]

\* ProjectGroup::delete_project: the removed Project is closed and then
\* dropped as the call returns.
ProjectGroup_delete_project(g, name, d) ==
    IF name \in DOMAIN g.projects
    THEN [group |-> [g EXCEPT !.projects = MapDel(@, name)],
          disk |-> Project_drop(g.projects[name], Project_close(g.projects[name], d))]
    ELSE [group |-> g, disk |-> d]

\* ProjectGroup::close: close every project.
RECURSIVE CloseProjects(_, _, _)
CloseProjects(g, names, d) ==
    IF names = {} THEN d
    ELSE CloseProjects(g, names \ {CHOOSE x \in names : TRUE},
                       Project_close(g.projects[CHOOSE x \in names : TRUE], d))
ProjectGroup_close(g, d) == CloseProjects(g, DOMAIN g.projects, d)

\* The ProjectGroup value is dropped: every Project in its map is dropped.
RECURSIVE DropProjects(_, _, _)
DropProjects(g, names, d) ==
    IF names = {} THEN d
    ELSE DropProjects(g, names \ {CHOOSE x \in names : TRUE},
                      Project_drop(g.projects[CHOOSE x \in names : TRUE], d))
ProjectGroup_drop(g, d) == DropProjects(g, DOMAIN g.projects, d)

\* -------------------------------------------------------------- file store
\* A file name is the sequence of its dot-free runs of characters and the
\* dots between them: f.bin is <<"f", ".", "bin">>.
FileStore_new(base_path) == [base_path |-> base_path]

resolve_path(fs, key) == [parent |-> fs.base_path, file_name |-> key]

\* Path::with_extension: the extension is what follows the last dot that is
\* not the first character of the name; it is replaced, or added when the
\* name has none.
with_extension(path, extension) ==
    LET name == path.file_name
        dots == {i \in 2..Len(name) : name[i] = "."}
        stem == IF dots = {} THEN name
                ELSE SubSeq(name, 1, (CHOOSE i \in dots : \A j \in dots : j <= i) - 1)
    IN  [path EXCEPT !.file_name = stem \o <<".", extension>>]

EmptyStore == [dirs |-> {}, files |-> EmptyMap]

\* fs::read(path).ok()
FileStore_get(fs, d, key) ==
    LET path == resolve_path(fs, key)
    IN  IF path \in DOMAIN d.files THEN [some |-> d.files[path]] ELSE None

\* fs::rename: the destination name now refers to the source file; renaming
\* a file to itself does nothing.
fs_rename(d, from, to) ==
    IF from = to THEN d
    ELSE [d EXCEPT !.files = MapPut(MapDel(d.files, from), to, d.files[from])]

fs_remove_file(d, path) == [d EXCEPT !.files = MapDel(d.files, path)]

\* No put has been called yet.
NoPut == [pc |-> "idle", key |-> <<>>, value |-> <<>>, written |-> 0,
          prev |-> None, tmp_prev |-> None, result |-> TRUE]

\* ------------------------------------------------------------------ locks
Threads == {1, 2}

\* A thread that is in no call.
Idle == [pc |-> "idle", call |-> [op |-> "none"], found |-> <<>>, result |-> None]

\* An RwLock with no writer and no readers; w is the writing thread or 0.
\* A read is granted whenever no thread holds the lock for writing, a write
\* when no thread holds it at all: every RwLock grants at most this.
NewRwLock == [w |-> 0, r |-> {}]
CanRead(l) == l.w = 0
CanWrite(l) == l.w = 0 /\ l.r = {}
RwLock_read(l, t) == [l EXCEPT !.r = @ \cup {t}]
RwLock_write(l, t) == [l EXCEPT !.w = t]
\* Dropping thread t's guard.
RwLock_release(l, t) == [w |-> IF l.w = t THEN 0 ELSE l.w, r |-> l.r \ {t}]

Unlocked == [records |-> NewRwLock, indexes |-> NewRwLock]

\* ------------------------------------------------------------------ state
VARIABLES
    coll,      \* the open Collection value, or None when no handle exists
    disk,      \* the directory tree under the persistence root
    last,      \* the last call made: its name, its arguments and its result
    snap,      \* the Collection value that was dropped last, until the next write
    ops,       \* the number of calls made so far
    proj,      \* the open Project value, or None when no handle exists
    dropped,   \* the names passed to drop_collection (delete_project in a group) and
               \* not created again since
    saving,    \* the persist in progress: the file-system calls it has yet to
               \* make, the files before it began and the files it is to leave
    fstore,    \* the directories and files a FileStore works on
    put,       \* the FileStore::put call in progress or returned last
    thr,       \* per thread: the call it is in and how far it has come
    locks,     \* the holders of the collection's records and indexes locks
    bare,      \* an index used on its own, with the vectors given to it, or None
    group      \* the open ProjectGroup value, or None when no handle exists

vars == <<coll, disk, last, snap, ops, proj, dropped, saving, fstore, put, thr, locks, bare, group>>

\* No persist is in progress.
NotSaving == [steps |-> <<>>, then |-> "idle", before |-> EmptyMap, after |-> EmptyMap]

\* ----------------------------------------------------------------- inputs
CollPath == <<"root", "c">>

R1 == [id |-> Num(1), vec |-> Arr(<<Num(1), Num(0)>>), cat |-> Str("A")]
R2 == [id |-> Num(1), vec |-> Arr(<<Flt(3), Str("x"), Flt(4)>>), cat |-> Str("B")]
R3 == [id |-> Str("a"), vec |-> Arr(<<Num(0), Num(1)>>), cat |-> Str("B")]
R4 == [id |-> Num(1), cat |-> Str("B")]
R5 == [vec |-> Arr(<<Num(1), Num(0)>>), cat |-> Str("A")]
R6 == [id |-> Str("a"), vec |-> Arr(<<Num(1)>>)]
R7 == [id |-> Num(2), vec |-> Arr(<<Flt(2 * F32_MAX), Num(0)>>), cat |-> Str("A")]

\* upsert_data batches: an integer key, a string key, a record without a
\* vector, a record without a key, an overwrite inside a batch, a dimension
\* mismatch after an accepted record.
Batches == {<<R1>>, <<R4>>, <<R5>>, <<R1, R2>>, <<R3, R6>>}
KeyLists == {<<Num(1)>>, <<Str("a"), Num(2)>>}
IndexNames == {"i1", "i2"}
IndexConfigs == {[index_type |-> "flat", distance |-> "cosine"],
                 [index_type |-> "hnsw", distance |-> "l2"]}
Levels == 0..MaxLevel
Queries == {<<1, 0>>, <<0, 1>>}

\* The inputs of the persistent collection's runs.
BatchesP == {<<R1>>, <<R3>>, <<R5>>, <<R7>>, <<R1, R4>>}
KeyListsP == {<<Num(1)>>, <<Str("a"), Num(2)>>}
IndexNamesP == {"i1"}
\* Flat indexes under the metrics whose insert stores the vector as given.
IndexConfigsP == {[index_type |-> "flat", distance |-> "l2"],
                  [index_type |-> "flat", distance |-> "ip"]}

\* The orders in which a HashMap can yield the keys in S.
Orders(S) == {o \in [1..Cardinality(S) -> S] : \A i, j \in DOMAIN o : i # j => o[i] # o[j]}

\* ---------------------------------------------------------------- actions
CreateIndex(names, configs) ==
    /\ coll # None
    /\ \E name \in names, cfg \in configs, order \in Orders(DOMAIN coll.records),
          lv \in [DOMAIN coll.records -> Levels] :
         LET r == create_index(coll, name, cfg, order, lv)
         IN /\ cfg.index_type # "hnsw" => \A l \in DOMAIN lv : lv[l] = 0
            /\ coll' = r.coll
            /\ last' = [op |-> "create_index", name |-> name, cfg |-> cfg, result |-> r.result]
    /\ snap' = None
    /\ UNCHANGED disk

DropIndex(names) ==
    /\ coll # None
    /\ \E name \in names :
         /\ coll' = drop_index(coll, name)
         /\ last' = [op |-> "drop_index", name |-> name]
    /\ snap' = None
    /\ UNCHANGED disk

UpsertData(batches) ==
    /\ coll # None
    /\ \E data_list \in batches :
       \E lv \in [DOMAIN data_list -> [HnswNames(coll) -> Levels]] :
         LET r == upsert_data(coll, data_list, lv)
         IN /\ coll' = r.coll
            /\ last' = [op |-> "upsert_data", data_list |-> data_list, result |-> r.result]
    /\ snap' = None
    /\ UNCHANGED disk

DeleteData(keylists) ==
    /\ coll # None
    /\ \E primary_keys \in keylists :
         /\ coll' = delete_data(coll, primary_keys)
         /\ last' = [op |-> "delete_data", primary_keys |-> primary_keys]
    /\ snap' = None
    /\ UNCHANGED disk

DeleteAllData ==
    /\ coll # None
    /\ coll' = delete_all_data(coll)
    /\ last' = [op |-> "delete_all_data"]
    /\ snap' = None
    /\ UNCHANGED disk

Close ==
    /\ coll # None
    /\ disk' = close(coll, disk)
    /\ last' = [op |-> "close"]
    /\ UNCHANGED <<coll, snap>>

\* The handle goes out of scope: Drop persists, the value is gone.
DropHandle ==
    /\ coll # None
    /\ disk' = drop(coll, disk)
    /\ coll' = None
    /\ snap' = coll
    /\ last' = [op |-> "drop"]

\* Collection::with_path on the same config and path.
Reopen ==
    /\ coll = None
    /\ coll' = with_path(Cfg, CollPath, disk).coll
    /\ disk' = with_path(Cfg, CollPath, disk).disk
    /\ last' = [op |-> "with_path"]
    /\ UNCHANGED snap

\* One more call on the collection; the project is not involved.
Count(bound) == ops < bound /\ ops' = ops + 1 /\ UNCHANGED <<proj, dropped, saving, fstore, put, thr, locks, bare, group>>

\* An in-memory collection (Collection::new) and the calls made on it.
Init ==
    /\ coll = Collection_new(Cfg)
    /\ disk = EmptyDisk
    /\ last = [op |-> "new"]
    /\ snap = None
    /\ ops = 0
    /\ proj = None
    /\ dropped = {}
    /\ saving = NotSaving
    /\ fstore = EmptyStore
    /\ put = NoPut
    /\ thr = [t \in Threads |-> Idle]
    /\ locks = Unlocked
    /\ bare = None
    /\ group = None

Next ==
    \/ CreateIndex(IndexNames, IndexConfigs) /\ Count(MaxOps)
    \/ DropIndex(IndexNames) /\ Count(MaxOps)
    \/ UpsertData(Batches) /\ Count(MaxOps)
    \/ DeleteData(KeyLists) /\ Count(MaxOps)
    \/ DeleteAllData /\ Count(MaxOps)

Spec == Init /\ [][Next]_vars

\* An in-memory collection whose calls repeat keys: batches that write a key
\* twice or write a stored key again, key lists that name a key twice.
R8 == [id |-> Num(2), vec |-> Arr(<<Num(0), Num(1)>>), cat |-> Str("A")]
BatchesU == {<<R1>>, <<R4>>, <<R5>>, <<R8>>, <<R1, R2>>, <<R3, R6>>, <<R8, R6, R1>>}
KeyListsU == {<<Num(1)>>, <<Num(1), Num(1)>>, <<Str("a"), Num(2)>>}

NextU ==
    \/ CreateIndex(IndexNamesP, IndexConfigs) /\ Count(MaxOpsU)
    \/ UpsertData(BatchesU) /\ Count(MaxOpsU)
    \/ DeleteData(KeyListsU) /\ Count(MaxOpsU)

SpecU == Init /\ [][NextU]_vars

\* An in-memory collection with flat indexes, searched with filters.  Wide
\* is a batch of more records than a search for one item asks the index
\* for; only its last record has category A.
WideLen == 11
Wide == [i \in 1..WideLen |->
           [id |-> Num(10 + i), vec |-> Arr(<<Num(i), Num(1)>>),
            cat |-> Str(IF i = WideLen THEN "A" ELSE "B")]]
BatchesF == {<<R1>>, <<R3>>, <<R4>>, <<R8>>, <<R1, R8, R3>>, Wide}

\* An index is created while the collection holds at most MaxReplay
\* records, which bounds the iteration orders of the replay.
NextF ==
    \/ count(coll) <= MaxReplay /\ CreateIndex(IndexNamesP, IndexConfigsP) /\ Count(MaxOpsF)
    \/ UpsertData(BatchesF) /\ Count(MaxOpsF)
    \/ DeleteData(KeyListsP) /\ Count(MaxOpsF)

SpecF == Init /\ [][NextF]_vars

\* An index used on its own (FlatIndex::new / HnswIndex::new, then insert
\* and delete calls).  bare.given holds, for every label inserted and not
\* deleted since, the vector last given for it.
MaxLabel == 3
MaxOpsI == 4
BareLabels == 1..MaxLabel
Metrics == {"l2", "ip", "cosine"}
VectorsI == {<<1, 0>>, <<0, 2>>, <<3, 4>>, <<0, 0>>, <<1>>}
QueriesI == Queries \cup {<<3, 4>>}

InitBare(indexes) ==
    /\ coll = None
    /\ disk = EmptyDisk
    /\ last = [op |-> "new"]
    /\ snap = None
    /\ ops = 0
    /\ proj = None
    /\ dropped = {}
    /\ saving = NotSaving
    /\ fstore = EmptyStore
    /\ put = NoPut
    /\ thr = [t \in Threads |-> Idle]
    /\ locks = Unlocked
    /\ \E index \in indexes : bare = [index |-> index, given |-> EmptyMap]
    /\ group = None

CountI(bound) ==
    /\ ops < bound
    /\ ops' = ops + 1
    /\ UNCHANGED <<coll, disk, last, snap, proj, dropped, saving, fstore, put, thr, locks, group>>

\* index.insert(label, vector); Err(DimensionMismatch) leaves the index as
\* it is.
FlatInsert ==
    \E label \in BareLabels, vector \in VectorsI :
        bare' = [index |-> FlatIndex_insert(bare.index, label, vector),
                 given |-> IF Len(vector) = bare.index.dimension
                           THEN MapPut(bare.given, label, vector) ELSE bare.given]

\* index.delete(label)
FlatDelete ==
    \E label \in BareLabels :
        bare' = [index |-> FlatIndex_delete(bare.index, label),
                 given |-> MapDel(bare.given, label)]

InitFlat == InitBare({FlatIndex_new(2, metric) : metric \in Metrics})
NextFlat ==
    \/ FlatInsert /\ CountI(MaxOpsI)
    \/ FlatDelete /\ CountI(MaxOpsI)
SpecFlat == InitFlat /\ [][NextFlat]_vars

\* An HNSW index used on its own; every insert draws its level.
MaxOpsH == 3
VectorsH == {<<1, 0>>, <<0, 2>>, <<1>>}

HnswInsert ==
    \E label \in BareLabels, vector \in VectorsH, level \in Levels :
        bare' = [index |-> HnswIndex_insert(bare.index, label, vector, level),
                 given |-> IF Len(vector) = bare.index.dimension
                           THEN MapPut(bare.given, label, vector) ELSE bare.given]

HnswDelete ==
    \E label \in BareLabels :
        bare' = [index |-> HnswIndex_delete(bare.index, label),
                 given |-> MapDel(bare.given, label)]

InitHnsw == InitBare({HnswIndex_new(2, metric) : metric \in Metrics})
NextHnsw ==
    \/ HnswInsert /\ CountI(MaxOpsH)
    \/ HnswDelete /\ CountI(MaxOpsH)
SpecHnsw == InitHnsw /\ [][NextHnsw]_vars

\* An index built with_params(2, L2, M = 1, 200, 50), whose lists fill up
\* after a few inserts. Every insert brings a label that was never used
\* (an insert of a live label does not link, see C31).
MaxOpsM == 4
VectorsM == {<<1, 0>>, <<0, 2>>, <<3, 4>>}
HnswInsertFresh ==
    \E vector \in VectorsM, level \in Levels :
        LET label == Len(bare.index.id_to_label) + 1
        IN bare' = [index |-> HnswIndex_insert(bare.index, label, vector, level),
                    given |-> MapPut(bare.given, label, vector)]
InitHnswM == InitBare({HnswIndex_with_params(2, "l2", 1, HnswEfConstruction, HnswEfSearch)})
NextHnswM ==
    \/ HnswInsertFresh /\ CountI(MaxOpsM)
    \/ HnswDelete /\ CountI(MaxOpsM)
SpecHnswM == InitHnswM /\ [][NextHnswM]_vars

\* The same calls, with `last` telling whether the call gave a live label
\* another vector.
CountRec ==
    /\ ops < MaxOpsH
    /\ ops' = ops + 1
    /\ last' = [op |-> IF DOMAIN bare'.given = DOMAIN bare.given /\ bare'.given # bare.given
                       THEN "update" ELSE "other"]
    /\ UNCHANGED <<coll, disk, snap, proj, dropped, saving, fstore, put, thr, locks, group>>
NextHnswRec ==
    \/ HnswInsert /\ CountRec
    \/ HnswDelete /\ CountRec
\* One metric that stores the vector as given and the one that normalizes.
InitHnswRec == InitBare({HnswIndex_new(2, metric) : metric \in {"l2", "cosine"}})
SpecHnswRec == InitHnswRec /\ [][NextHnswRec]_vars

\* An HNSW index that is also saved and loaded into a new HnswIndex of the
\* same dimension and metric; the labels the loaded index holds count as
\* given with the vectors stored for them.
MaxOpsL == 5
HnswReload ==
    LET loaded == HnswIndex_load(HnswIndex_new(bare.index.dimension, bare.index.metric),
                                 HnswIndex_save_bytes(bare.index))
    IN bare' = [index |-> loaded,
                given |-> [label \in DOMAIN loaded.label_to_id |->
                             loaded.vectors[loaded.label_to_id[label]].num]]

NextHnswL ==
    \/ HnswInsert /\ CountI(MaxOpsL)
    \/ HnswDelete /\ CountI(MaxOpsL)
    \/ HnswReload /\ CountI(MaxOpsL)
SpecHnswL == InitHnsw /\ [][NextHnswL]_vars

\* A persistent collection (Collection::with_path), closed, dropped and
\* opened again.
InitP ==
    /\ coll = with_path(Cfg, CollPath, EmptyDisk).coll
    /\ disk = with_path(Cfg, CollPath, EmptyDisk).disk
    /\ last = [op |-> "with_path"]
    /\ snap = None
    /\ ops = 0
    /\ proj = None
    /\ dropped = {}
    /\ saving = NotSaving
    /\ fstore = EmptyStore
    /\ put = NoPut
    /\ thr = [t \in Threads |-> Idle]
    /\ locks = Unlocked
    /\ bare = None
    /\ group = None

NextP ==
    \/ CreateIndex(IndexNamesP, IndexConfigsP) /\ Count(MaxOpsP)
    \/ UpsertData(BatchesP) /\ Count(MaxOpsP)
    \/ DeleteData(KeyListsP) /\ Count(MaxOpsP)
    \/ DeleteAllData /\ Count(MaxOpsP)
    \/ Close /\ Count(MaxOpsP)
    \/ DropHandle /\ Count(MaxOpsP)
    \/ Reopen /\ Count(MaxOpsP)

SpecP == InitP /\ [][NextP]_vars

\* ------------------------------------------------------- project actions
ProjPath == <<"root">>
CollNames == {"c", "d"}
BatchesProj == {<<R1>>, <<R3>>}

\* One more call on the project; no bare collection handle is involved.
CountProj == ops < MaxOpsProj /\ ops' = ops + 1 /\ UNCHANGED <<coll, snap, saving, fstore, put, thr, locks, bare, group>>

ProjCreateCollection ==
    /\ proj # None
    /\ \E name \in CollNames :
         LET r == Project_create_collection(proj, name, [Cfg EXCEPT !.name = name], disk)
         IN /\ proj' = r.proj
            /\ disk' = r.disk
            /\ dropped' = IF r.result = "Ok" THEN dropped \ {name} ELSE dropped
            /\ last' = [op |-> "create_collection", name |-> name, result |-> r.result]
    /\ CountProj

\* with_collection(name, |c| c.upsert_data(data_list)).
ProjUpsertData ==
    /\ proj # None
    /\ \E name \in DOMAIN proj.collections, data_list \in BatchesProj :
         /\ proj' = [proj EXCEPT !.collections[name] =
                       upsert_data(@, data_list, [i \in DOMAIN data_list |-> EmptyMap]).coll]
         /\ last' = [op |-> "upsert_data", name |-> name, data_list |-> data_list]
    /\ UNCHANGED <<disk, dropped>>
    /\ CountProj

ProjDropCollection ==
    /\ proj # None
    /\ \E name \in CollNames :
         /\ proj' = Project_drop_collection(proj, name, disk).proj
         /\ disk' = Project_drop_collection(proj, name, disk).disk
         /\ dropped' = dropped \cup {name}
         /\ last' = [op |-> "drop_collection", name |-> name,
                     existed |-> has_collection(proj, name)]
    /\ CountProj

ProjClose ==
    /\ proj # None
    /\ disk' = Project_close(proj, disk)
    /\ last' = [op |-> "close"]
    /\ UNCHANGED <<proj, dropped>>
    /\ CountProj

\* The project handle goes out of scope.
ProjDrop ==
    /\ proj # None
    /\ disk' = Project_drop(proj, disk)
    /\ proj' = None
    /\ last' = [op |-> "drop"]
    /\ UNCHANGED dropped
    /\ CountProj

\* Project::with_path on the same root.
ProjReopen ==
    /\ proj = None
    /\ \E order \in Orders(read_dir(create_dir_all(disk, ProjPath), ProjPath)) :
         /\ proj' = Project_with_path("p", ProjPath, disk, order).proj
         /\ disk' = Project_with_path("p", ProjPath, disk, order).disk
    /\ last' = [op |-> "Project::with_path"]
    /\ UNCHANGED dropped
    /\ CountProj

\* A persistent project (Project::with_path on an empty root) and the calls
\* made on it.
InitProj ==
    /\ coll = None
    /\ disk = Project_with_path("p", ProjPath, EmptyDisk, <<>>).disk
    /\ last = [op |-> "Project::with_path"]
    /\ snap = None
    /\ ops = 0
    /\ proj = Project_with_path("p", ProjPath, EmptyDisk, <<>>).proj
    /\ dropped = {}
    /\ saving = NotSaving
    /\ fstore = EmptyStore
    /\ put = NoPut
    /\ thr = [t \in Threads |-> Idle]
    /\ locks = Unlocked
    /\ bare = None
    /\ group = None

NextProj ==
    \/ ProjCreateCollection
    \/ ProjUpsertData
    \/ ProjDropCollection
    \/ ProjClose
    \/ ProjDrop
    \/ ProjReopen

SpecProj == InitProj /\ [][NextProj]_vars

\* create_collection(name, cfg) with any cfg.name, equal to name or not.
ProjCreateCollectionCfg ==
    /\ proj # None
    /\ \E name \in CollNames, cfg_name \in CollNames :
         LET r == Project_create_collection(proj, name, [Cfg EXCEPT !.name = cfg_name], disk)
         IN /\ proj' = r.proj
            /\ disk' = r.disk
            /\ dropped' = IF r.result = "Ok" THEN dropped \ {name} ELSE dropped
            /\ last' = [op |-> "create_collection", name |-> name, cfg_name |-> cfg_name,
                        result |-> r.result]
    /\ CountProj

\* A persistent project whose collections are created under names of the
\* caller's choice.
NextProjCfg ==
    \/ ProjCreateCollectionCfg
    \/ ProjUpsertData
    \/ ProjDropCollection
    \/ ProjClose
    \/ ProjDrop
    \/ ProjReopen

SpecProjCfg == InitProj /\ [][NextProjCfg]_vars

\* -------------------------------------------------- project group actions
MaxOpsG == 4
GroupPath == <<"groot">>
ProjNames == {"default", "x"}
GroupCollNames == {"c"}

\* The orders in which the projects under root read their directories.
ProjectOrders(d, root) ==
    {f \in [read_dir(d, root) -> UNION {Orders(read_dir(d, q)) : q \in read_dir(d, root)}] :
       \A q \in read_dir(d, root) : f[q] \in Orders(read_dir(d, q))}

CountG ==
    /\ ops < MaxOpsG
    /\ ops' = ops + 1
    /\ UNCHANGED <<coll, snap, proj, saving, fstore, put, thr, locks, bare>>

GroupCreateProject ==
    /\ group # None
    /\ \E name \in ProjNames :
         \E order \in Orders(IF group.path = None THEN {}
                             ELSE read_dir(disk, Join(group.path.p, name))) :
           LET r == ProjectGroup_create_project(group, name, disk, order)
           IN /\ group' = r.group
              /\ disk' = r.disk
              /\ dropped' = IF r.result = "Ok" THEN dropped \ {name} ELSE dropped
              /\ last' = [op |-> "create_project", name |-> name, result |-> r.result]
    /\ CountG

GroupDeleteProject ==
    /\ group # None
    /\ \E name \in ProjNames :
         /\ group' = ProjectGroup_delete_project(group, name, disk).group
         /\ disk' = ProjectGroup_delete_project(group, name, disk).disk
         /\ dropped' = IF has_project(group, name) THEN dropped \cup {name} ELSE dropped
         /\ last' = [op |-> "delete_project", name |-> name,
                     existed |-> has_project(group, name)]
    /\ CountG

\* with_project(pname, |p| p.create_collection(name, cfg))
GroupCreateCollection ==
    /\ group # None
    /\ \E pname \in DOMAIN group.projects, name \in GroupCollNames :
         LET r == Project_create_collection(group.projects[pname], name,
                                            [Cfg EXCEPT !.name = name], disk)
         IN /\ group' = [group EXCEPT !.projects[pname] = r.proj]
            /\ disk' = r.disk
            /\ last' = [op |-> "create_collection", project |-> pname, name |-> name,
                        result |-> r.result]
    /\ UNCHANGED dropped
    /\ CountG

\* with_project(pname, |p| p.drop_collection(name))
GroupDropCollection ==
    /\ group # None
    /\ \E pname \in DOMAIN group.projects, name \in GroupCollNames :
         LET r == Project_drop_collection(group.projects[pname], name, disk)
         IN /\ group' = [group EXCEPT !.projects[pname] = r.proj]
            /\ disk' = r.disk
            /\ last' = [op |-> "drop_collection", project |-> pname, name |-> name,
                        existed |-> has_collection(group.projects[pname], name)]
    /\ UNCHANGED dropped
    /\ CountG

\* with_project(pname, |p| p.with_collection(cname, |c| c.create_index(name, cfg)))
GroupCreateIndex ==
    /\ group # None
    /\ \E pname \in DOMAIN group.projects :
       \E cname \in DOMAIN group.projects[pname].collections :
         LET c == group.projects[pname].collections[cname]
         IN \E name \in IndexNamesP, cfg \in IndexConfigsP, order \in Orders(DOMAIN c.records),
               lv \in [DOMAIN c.records -> Levels] :
              LET r == create_index(c, name, cfg, order, lv)
              IN /\ cfg.index_type # "hnsw" => \A l \in DOMAIN lv : lv[l] = 0
                 /\ group' = [group EXCEPT !.projects[pname].collections[cname] = r.coll]
                 /\ last' = [op |-> "create_index", project |-> pname, collection |-> cname,
                             name |-> name, result |-> r.result]
    /\ UNCHANGED <<disk, dropped>>
    /\ CountG

\* with_project(pname, |p| p.with_collection(cname, |c| c.upsert_data(data_list)))
GroupUpsertData ==
    /\ group # None
    /\ \E pname \in DOMAIN group.projects :
       \E cname \in DOMAIN group.projects[pname].collections, data_list \in BatchesProj :
         /\ group' = [group EXCEPT !.projects[pname].collections[cname] =
                        upsert_data(@, data_list, [i \in DOMAIN data_list |-> EmptyMap]).coll]
         /\ last' = [op |-> "upsert_data", project |-> pname, collection |-> cname,
                     data_list |-> data_list]
    /\ UNCHANGED <<disk, dropped>>
    /\ CountG

\* The group handle goes out of scope.
GroupDrop ==
    /\ group # None
    /\ disk' = ProjectGroup_drop(group, disk)
    /\ group' = None
    /\ last' = [op |-> "drop"]
    /\ UNCHANGED dropped
    /\ CountG

\* ProjectGroup::with_path on the root.
GroupReopen ==
    /\ group = None
    /\ \E order \in Orders(read_dir(create_dir_all(disk, GroupPath), GroupPath)) :
         \E orders \in ProjectOrders(create_dir_all(disk, GroupPath), GroupPath) :
           /\ group' = ProjectGroup_with_path(GroupPath, disk, order, orders).group
           /\ disk' = ProjectGroup_with_path(GroupPath, disk, order, orders).disk
    /\ last' = [op |-> "ProjectGroup::with_path"]
    /\ UNCHANGED dropped
    /\ CountG

\* A project group, volatile (ProjectGroup::new) or persistent
\* (ProjectGroup::with_path on an empty root).
InitGroup ==
    /\ coll = None
    /\ snap = None
    /\ ops = 0
    /\ proj = None
    /\ dropped = {}
    /\ saving = NotSaving
    /\ fstore = EmptyStore
    /\ put = NoPut
    /\ thr = [t \in Threads |-> Idle]
    /\ locks = Unlocked
    /\ bare = None
    /\ \/ /\ group = ProjectGroup_new
          /\ disk = EmptyDisk
          /\ last = [op |-> "ProjectGroup::new"]
       \/ /\ group = ProjectGroup_with_path(GroupPath, EmptyDisk, <<>>, EmptyMap).group
          /\ disk = ProjectGroup_with_path(GroupPath, EmptyDisk, <<>>, EmptyMap).disk
          /\ last = [op |-> "ProjectGroup::with_path"]

NextGroup ==
    \/ GroupCreateProject
    \/ GroupDeleteProject
    \/ GroupCreateCollection
    \/ GroupDropCollection
    \/ GroupCreateIndex
    \/ GroupUpsertData
    \/ GroupDrop
    \/ GroupReopen

SpecGroup == InitGroup /\ [][NextGroup]_vars

\* ------------------------------------------------------------- BytesRow
\* A byte buffer is a sequence of runs [b |-> byte, n |-> count], so that a
\* text of 65536 bytes and more keeps its true length. The text of a JSON
\* string is held in the same form.
Run(b, n) == IF n = 0 THEN <<>> ELSE <<[b |-> b, n |-> n]>>
Text(runs) == [str |-> runs]
Bool(b) == [bool |-> b]
IsBool(v) == DOMAIN v = {"bool"}
\* An i64 outside the range the model computes with, by its eight bytes.
Wide64(bytes) == [wide |-> bytes]

RECURSIVE RLen(_)
RLen(buf) == IF buf = <<>> THEN 0 ELSE Head(buf).n + RLen(Tail(buf))

RECURSIVE RTake(_, _)
RTake(buf, n) ==
    IF n = 0 \/ buf = <<>> THEN <<>>
    ELSE IF Head(buf).n <= n THEN <<Head(buf)>> \o RTake(Tail(buf), n - Head(buf).n)
    ELSE <<[b |-> Head(buf).b, n |-> n]>>

RECURSIVE RDrop(_, _)
RDrop(buf, n) ==
    IF n = 0 \/ buf = <<>> THEN buf
    ELSE IF Head(buf).n <= n THEN RDrop(Tail(buf), n - Head(buf).n)
    ELSE <<[b |-> Head(buf).b, n |-> Head(buf).n - n]>> \o Tail(buf)

\* Adjacent runs of one byte merged: equal byte strings have equal forms.
RECURSIVE RNorm(_)
RNorm(buf) ==
    IF Len(buf) < 2 THEN buf
    ELSE IF buf[1].b = buf[2].b
         THEN RNorm(<<[b |-> buf[1].b, n |-> buf[1].n + buf[2].n]>> \o SubSeq(buf, 3, Len(buf)))
    ELSE <<buf[1]>> \o RNorm(Tail(buf))

\* The i-th byte of a buffer that has one, from 0.
RByte(buf, i) == Head(RDrop(buf, i)).b

Pow2(k) == LET RECURSIVE go(_)
               go(i) == IF i = 0 THEN 1 ELSE 2 * go(i - 1)
           IN go(k)

\* write_i64::<LittleEndian>: two's complement, low byte first, for the
\* values the model computes with, |v| < 2^23.
I64Bytes(v) ==
    LET sign == IF v < 0 THEN 255 ELSE 0
    IN <<[b |-> v % 256, n |-> 1], [b |-> (v \div 256) % 256, n |-> 1],
         [b |-> (v \div 65536) % 256, n |-> 1], [b |-> sign, n |-> 5]>>
\* write_u16::<LittleEndian>(len as u16): the length modulo 2^16.
U16Bytes(len) ==
    LET v == len % 65536
    IN <<[b |-> v % 256, n |-> 1], [b |-> v \div 256, n |-> 1]>>
\* write_u32::<LittleEndian>(len as u32), for len < 2^31.
U32Bytes(len) ==
    <<[b |-> len % 256, n |-> 1], [b |-> (len \div 256) % 256, n |-> 1],
      [b |-> (len \div 65536) % 256, n |-> 1], [b |-> len \div 16777216, n |-> 1]>>

\* val.as_i64() / as_bool() / as_str(), with the unwrap_or of write_field.
as_i64_or(val, d) == IF IsNum(val) THEN val.num ELSE d
as_bool_or(val, d) == IF IsBool(val) THEN val.bool ELSE d
as_str_or(val, d) == IF IsStr(val) THEN val.str ELSE d

\* BytesRow::write_field: the bytes appended for one field.
write_field(dt, val) ==
    CASE dt = "Int64" -> I64Bytes(as_i64_or(val, 0))
      [] dt = "Boolean" -> Run(IF as_bool_or(val, FALSE) THEN 1 ELSE 0, 1)
      [] dt = "String" -> LET bytes == as_str_or(val, <<>>)
                          IN U16Bytes(RLen(bytes)) \o bytes
      [] dt = "Binary" -> LET bytes == as_str_or(val, <<>>)
                          IN U32Bytes(RLen(bytes)) \o bytes

\* BytesRow::serialize: the fields in schema order; a missing key takes the
\* declared default, or null.
RECURSIVE BytesRow_serialize(_, _)
BytesRow_serialize(schema, data) ==
    IF schema = <<>> THEN <<>>
    ELSE LET field == Head(schema)
             val == IF field.name \in DOMAIN data THEN data[field.name]
                    ELSE field.default_value
         IN write_field(field.data_type, val) \o BytesRow_serialize(Tail(schema), data)

\* String::from_utf8 on the bytes of the model's texts, which are ASCII;
\* 0xFF, the one other byte above 0x7F that is written, is never valid.
from_utf8_ok(bytes) == \A i \in DOMAIN bytes : bytes[i].b < 128

\* read_exact of a length-prefixed text: the value, and the bytes left.
read_text(rest, len, left) ==
    IF RLen(left) < len THEN [val |-> None, rest |-> rest, ok |-> FALSE]
    ELSE LET bytes == RNorm(RTake(left, len))
         IN [val |-> IF from_utf8_ok(bytes) THEN Text(bytes) ELSE None,
             rest |-> RDrop(left, len), ok |-> TRUE]

\* BytesRow::read_field at the cursor: the value or None, the bytes left
\* behind the cursor, and whether every read found its bytes.
read_field(rest, dt) ==
    CASE dt = "Int64" ->
           IF RLen(rest) < 8 THEN [val |-> None, rest |-> rest, ok |-> FALSE]
           ELSE LET b == [i \in 0..7 |-> RByte(rest, i)]
                    low == b[0] + 256 * b[1] + 65536 * b[2]
                    v == IF (\A i \in 3..7 : b[i] = 0) /\ b[2] < 128 THEN Num(low)
                         ELSE IF (\A i \in 3..7 : b[i] = 255) /\ b[2] >= 128
                              THEN Num(low - 16777216)
                         ELSE Wide64([i \in 1..8 |-> b[i - 1]])
                IN [val |-> v, rest |-> RDrop(rest, 8), ok |-> TRUE]
      [] dt = "Boolean" ->
           IF RLen(rest) < 1 THEN [val |-> None, rest |-> rest, ok |-> FALSE]
           ELSE [val |-> Bool(RByte(rest, 0) # 0), rest |-> RDrop(rest, 1), ok |-> TRUE]
      [] dt = "String" ->
           IF RLen(rest) < 2 THEN [val |-> None, rest |-> rest, ok |-> FALSE]
           ELSE read_text(rest, RByte(rest, 0) + 256 * RByte(rest, 1), RDrop(rest, 2))
      [] dt = "Binary" ->
           IF RLen(rest) < 4 THEN [val |-> None, rest |-> rest, ok |-> FALSE]
           ELSE IF RByte(rest, 3) >= 128        \* a length no buffer of the model has
                THEN [val |-> None, rest |-> rest, ok |-> FALSE]
           ELSE read_text(rest, RByte(rest, 0) + 256 * RByte(rest, 1) + 65536 * RByte(rest, 2)
                                  + 16777216 * RByte(rest, 3),
                          RDrop(rest, 4))

\* BytesRow::deserialize: every field the cursor yields. After a read that
\* ran out of bytes the cursor stands either where the failed read began
\* or at the end of the buffer, as the standard library of the build has
\* it (eof_seeks_end).
RECURSIVE BytesRow_deserialize(_, _, _)
BytesRow_deserialize(schema, rest, eof_seeks_end) ==
    IF schema = <<>> THEN EmptyMap
    ELSE LET field == Head(schema)
             r == read_field(rest, field.data_type)
             after == IF ~r.ok /\ eof_seeks_end THEN <<>> ELSE r.rest
             more == BytesRow_deserialize(Tail(schema), after, eof_seeks_end)
         IN IF r.val = None THEN more ELSE MapPut(more, field.name, r.val)

\* The texts, schemas and field maps of the runs. LongText is the length
\* at which a u16 wraps.
LongText == Pow2(16)
TextLens == {0, 3, 300, LongText - 1, LongText, LongText + 3}
TextsR == {Text(Run(120, n)) : n \in TextLens} \cup {Text(Run(97, 2) \o Run(120, 1))}
IntsR == {Num(0), Num(7), Num(-1), Num(-300), Num(70000)}
FieldS(name, dt, default) == [name |-> name, data_type |-> dt, default_value |-> default]
SchemasR == {<<FieldS("s", "String", None), FieldS("n", "Int64", Num(7))>>,
             <<FieldS("n", "Int64", None), FieldS("s", "String", Text(Run(97, 2))),
               FieldS("b", "Boolean", None)>>,
             <<FieldS("s", "String", None), FieldS("t", "Binary", None),
               FieldS("b", "Boolean", Bool(TRUE))>>}
\* The values a field of the type can be given.
ValuesOf(dt) ==
    CASE dt = "Int64" -> IntsR
      [] dt = "Boolean" -> {Bool(TRUE), Bool(FALSE)}
      [] dt \in {"String", "Binary"} -> TextsR
\* The field maps whose keys and value types the schema declares.
MapsOf(schema) ==
    LET names == {schema[i].name : i \in DOMAIN schema}
        dtOf(name) == (CHOOSE i \in DOMAIN schema : schema[i].name = name)
    IN UNION {{m \in [keys -> UNION {ValuesOf(schema[i].data_type) : i \in DOMAIN schema}] :
                 \A k \in keys : m[k] \in ValuesOf(schema[dtOf(k)].data_type)} :
              keys \in SUBSET names}

RowUnchanged ==
    UNCHANGED <<coll, disk, snap, ops, proj, dropped, saving, fstore, put, thr, locks,
                bare, group>>

\* let bytes = row.serialize(&data)
RowSerialize ==
    /\ \E schema \in SchemasR :
       \E data \in MapsOf(schema) :
         last' = [op |-> "serialize", schema |-> schema, data |-> data,
                  bytes |-> BytesRow_serialize(schema, data)]
    /\ RowUnchanged

\* row.deserialize(&bytes)
RowDeserialize ==
    /\ last.op = "serialize"
    /\ \E eof_seeks_end \in BOOLEAN :
         last' = [op |-> "deserialize", schema |-> last.schema, data |-> last.data,
                  bytes |-> last.bytes,
                  result |-> BytesRow_deserialize(last.schema, last.bytes, eof_seeks_end)]
    /\ RowUnchanged

InitRow ==
    /\ coll = None
    /\ disk = EmptyDisk
    /\ last = [op |-> "BytesRow::new"]
    /\ snap = None
    /\ ops = 0
    /\ proj = None
    /\ dropped = {}
    /\ saving = NotSaving
    /\ fstore = EmptyStore
    /\ put = NoPut
    /\ thr = [t \in Threads |-> Idle]
    /\ locks = Unlocked
    /\ bare = None
    /\ group = None

NextRow ==
    \/ RowSerialize
    \/ RowDeserialize

SpecRow == InitRow /\ [][NextRow]_vars

\* ------------------------------------------------- filters on a record
\* The program parses filter documents and evaluates them on the fields
\* of one record; `last` holds the call and what it returned.
FieldsM == {[cat |-> Str("A"), n |-> Num(2)],
            [cat |-> Str("B"), n |-> Num(5)],
            [n |-> Num(1), tags |-> Arr(<<Str("A"), Str("x")>>)],
            [cat |-> Arr(<<Str("A"), Num(2)>>)],
            EmptyMap}
FieldNamesM == {"cat", "n", "tags"}
CondsM == {<<>>, <<Str("A")>>, <<Num(2), Str("B")>>}
MustM(field, conds) == Obj([op |-> Str("must"), field |-> Str(field), conds |-> Arr(conds)])
MustNotM(field, conds) ==
    Obj([op |-> Str("must_not"), field |-> Str(field), conds |-> Arr(conds)])
AndM(conds) == Obj([op |-> Str("and"), conds |-> Arr(conds)])
OrM(conds) == Obj([op |-> Str("or"), conds |-> Arr(conds)])
AtomsM == {MustM("cat", <<Str("A")>>),
           MustNotM("cat", <<Str("A")>>),
           MustNotM("tags", <<Str("x")>>),
           Obj([op |-> Str("range"), field |-> Str("n"), gte |-> Num(2)]),
           Obj([op |-> Str("range_out"), field |-> Str("n"), gte |-> Num(2), lte |-> Num(4)]),
           Obj([op |-> Str("prefix"), field |-> Str("cat"), prefix |-> Str("A")])}
FiltersM == AtomsM \cup {AndM(<<>>), OrM(<<>>)}
                  \cup {AndM(<<MustM("cat", <<Str("B")>>),
                               Obj([op |-> Str("range"), field |-> Str("n"), gt |-> Num(2)])>>),
                        OrM(<<MustM("tags", <<Str("A")>>), MustNotM("n", <<Num(2)>>)>>)}

\* Filter::from_json(v).unwrap().matches(fields)
Eval(v, fields) == matches(Filter_from_json(v), fields)

MatchUnchanged ==
    UNCHANGED <<coll, disk, snap, ops, proj, dropped, saving, fstore, put, thr, locks,
                bare, group>>

\* and([F1, F2]) and or([F1, F2]) next to F1 and F2 on the same record.
MatchPair ==
    /\ \E fields \in FieldsM, f1 \in FiltersM, f2 \in FiltersM :
         last' = [op |-> "matches_pair", fields |-> fields, f1 |-> f1, f2 |-> f2,
                  m1 |-> Eval(f1, fields), m2 |-> Eval(f2, fields),
                  and |-> Eval(AndM(<<f1, f2>>), fields),
                  or |-> Eval(OrM(<<f1, f2>>), fields)]
    /\ MatchUnchanged

\* and([]) and or([]).
MatchEmpty ==
    /\ \E fields \in FieldsM :
         last' = [op |-> "matches_empty", fields |-> fields,
                  and |-> Eval(AndM(<<>>), fields), or |-> Eval(OrM(<<>>), fields)]
    /\ MatchUnchanged

\* must and must_not with the same field and conds.
MatchMust ==
    /\ \E fields \in FieldsM, field \in FieldNamesM, conds \in CondsM :
         last' = [op |-> "matches_must", fields |-> fields, field |-> field, conds |-> conds,
                  must |-> Eval(MustM(field, conds), fields),
                  must_not |-> Eval(MustNotM(field, conds), fields)]
    /\ MatchUnchanged

InitMatch ==
    /\ coll = None
    /\ disk = EmptyDisk
    /\ last = [op |-> "Filter::from_json"]
    /\ snap = None
    /\ ops = 0
    /\ proj = None
    /\ dropped = {}
    /\ saving = NotSaving
    /\ fstore = EmptyStore
    /\ put = NoPut
    /\ thr = [t \in Threads |-> Idle]
    /\ locks = Unlocked
    /\ bare = None
    /\ group = None

NextMatch ==
    \/ MatchPair
    \/ MatchEmpty
    \/ MatchMust

SpecMatch == InitMatch /\ [][NextMatch]_vars

\* ------------------------------------- a project group and a bare index
\* The program holds a project group and, apart from it, an index of its
\* own (flat or HNSW); every call is recorded in `last`.
LabelsD == {1, 2, 3}
KeyListsD == {<<Num(1)>>, <<Num(2), Num(1)>>}

\* with_project(pname, |p| p.with_collection(cname, |c| c.delete_data(primary_keys)))
GroupDeleteData ==
    /\ group # None
    /\ \E pname \in DOMAIN group.projects :
       \E cname \in DOMAIN group.projects[pname].collections, primary_keys \in KeyListsD :
         /\ group' = [group EXCEPT !.projects[pname].collections[cname] =
                        delete_data(@, primary_keys)]
         /\ last' = [op |-> "delete_data", project |-> pname, collection |-> cname,
                     primary_keys |-> primary_keys]
    /\ UNCHANGED <<disk, dropped>>
    /\ CountG

CountD ==
    /\ ops < MaxOpsG
    /\ ops' = ops + 1
    /\ UNCHANGED <<coll, disk, snap, proj, dropped, saving, fstore, put, thr, locks, group>>

\* index.insert(label, &[1.0, 0.0]) through the VectorIndex trait.
IndexInsert ==
    /\ \E label \in LabelsD, level \in Levels :
         /\ bare.index.kind = "flat" => level = 0
         /\ bare' = [index |-> index_insert(bare.index, label, <<1, 0>>, level),
                     given |-> MapPut(bare.given, label, <<1, 0>>)]
         /\ last' = [op |-> "index.insert", label |-> label]
    /\ CountD

\* index.delete(label) through the VectorIndex trait.
IndexDelete ==
    /\ \E label \in LabelsD :
         /\ bare' = [index |-> index_delete(bare.index, label),
                     given |-> MapDel(bare.given, label)]
         /\ last' = [op |-> "index.delete", label |-> label, before |-> bare.index]
    /\ CountD

InitGroupIx ==
    /\ coll = None
    /\ snap = None
    /\ ops = 0
    /\ proj = None
    /\ dropped = {}
    /\ saving = NotSaving
    /\ fstore = EmptyStore
    /\ put = NoPut
    /\ thr = [t \in Threads |-> Idle]
    /\ locks = Unlocked
    /\ \E index \in {FlatIndex_new(2, "l2"), HnswIndex_new(2, "l2")} :
         bare = [index |-> index, given |-> EmptyMap]
    /\ \/ /\ group = ProjectGroup_new
          /\ disk = EmptyDisk
          /\ last = [op |-> "ProjectGroup::new"]
       \/ /\ group = ProjectGroup_with_path(GroupPath, EmptyDisk, <<>>, EmptyMap).group
          /\ disk = ProjectGroup_with_path(GroupPath, EmptyDisk, <<>>, EmptyMap).disk
          /\ last = [op |-> "ProjectGroup::with_path"]

NextGroupIx ==
    \/ GroupCreateProject
    \/ GroupDeleteProject
    \/ GroupCreateCollection
    \/ GroupDropCollection
    \/ GroupUpsertData
    \/ GroupDeleteData
    \/ IndexInsert
    \/ IndexDelete

SpecGroupIx == InitGroupIx /\ [][NextGroupIx]_vars

\* ------------------------------------------- persist, one call at a time
BatchesC == {<<R1>>, <<R3>>}

\* One more call on the collection while no persist is in progress.
CountC ==
    /\ saving = NotSaving
    /\ ops < MaxOpsC
    /\ ops' = ops + 1
    /\ UNCHANGED <<proj, dropped, saving, fstore, put, thr, locks, bare, group>>

\* close() or Drop enters persist.
BeginPersist ==
    /\ coll # None
    /\ saving = NotSaving
    /\ ops < MaxOpsC
    /\ ops' = ops + 1
    /\ \E then \in {"close", "drop"} :
         /\ saving' = [steps |-> persist_steps(coll, coll.path.p), then |-> then,
                       before |-> disk.files,
                       after |-> persist(coll, coll.path.p, disk).files]
         /\ last' = [op |-> then]
    /\ UNCHANGED <<coll, disk, snap, proj, dropped, fstore, put, thr, locks, bare, group>>

\* persist makes its next file-system call; after the last one close()
\* returns, or the dropped value is gone.
PersistStep ==
    /\ saving.steps # <<>>
    /\ disk' = RunStep(disk, Head(saving.steps))
    /\ IF Len(saving.steps) > 1
       THEN /\ saving' = [saving EXCEPT !.steps = Tail(@)]
            /\ UNCHANGED coll
       ELSE /\ saving' = NotSaving
            /\ coll' = IF saving.then = "drop" THEN None ELSE coll
    /\ UNCHANGED <<last, snap, ops, proj, dropped, fstore, put, thr, locks, bare, group>>

\* The process dies: memory is gone, the directory stays as it is.
Crash ==
    /\ coll # None
    /\ saving.steps # <<>>
    /\ coll' = None
    /\ saving' = NotSaving
    /\ last' = [op |-> "crash"]
    /\ UNCHANGED <<disk, snap, ops, proj, dropped, fstore, put, thr, locks, bare, group>>

\* A persistent collection whose persist is followed call by call.
NextCrash ==
    \/ CreateIndex(IndexNamesP, IndexConfigs) /\ CountC
    \/ UpsertData(BatchesC) /\ CountC
    \/ DeleteAllData /\ CountC
    \/ Reopen /\ CountC
    \/ BeginPersist
    \/ PersistStep
    \/ Crash

SpecCrash == InitP /\ [][NextCrash]_vars

\* --------------------------------------------------- file store actions
TheStore == FileStore_new(<<"root">>)
Keys == {<<"f", ".", "bin">>, <<"f", ".", "tmp">>, <<"g">>}
Values == {<<1>>, <<2, 3>>}

PutPath == resolve_path(TheStore, put.key)
PutTmpPath == with_extension(PutPath, "tmp")

PutUnchanged == UNCHANGED <<coll, disk, last, snap, proj, dropped, saving, thr, locks, bare, group>>

\* put(key, value) is called.
PutCall ==
    /\ put.pc \in {"idle", "returned"}
    /\ ops < MaxPuts
    /\ ops' = ops + 1
    /\ \E key \in Keys, value \in Values :
         put' = [pc |-> "create_dir_all", key |-> key, value |-> value, written |-> 0,
                 prev |-> FileStore_get(TheStore, fstore, key),
                 tmp_prev |-> LET tmp == with_extension(resolve_path(TheStore, key), "tmp")
                              IN  IF tmp \in DOMAIN fstore.files
                                  THEN [some |-> fstore.files[tmp]] ELSE None,
                 result |-> TRUE]
    /\ UNCHANGED fstore
    /\ PutUnchanged

\* fs::create_dir_all(parent); an error returns false.
PutCreateDirAll ==
    /\ put.pc = "create_dir_all"
    /\ \E ok \in BOOLEAN :
         IF ok
         THEN /\ fstore' = [fstore EXCEPT !.dirs = @ \cup {PutPath.parent}]
              /\ put' = [put EXCEPT !.pc = "File::create"]
         ELSE /\ put' = [put EXCEPT !.pc = "returned", !.result = FALSE]
              /\ UNCHANGED fstore
    /\ UNCHANGED ops
    /\ PutUnchanged

\* fs::File::create(&tmp_path): creates the file or truncates it.
PutFileCreate ==
    /\ put.pc = "File::create"
    /\ \E ok \in BOOLEAN :
         IF ok
         THEN /\ fstore' = [fstore EXCEPT !.files = MapPut(@, PutTmpPath, <<>>)]
              /\ put' = [put EXCEPT !.pc = "write_all"]
         ELSE /\ put' = [put EXCEPT !.pc = "remove_file"]
              /\ UNCHANGED fstore
    /\ UNCHANGED ops
    /\ PutUnchanged

\* f.write_all(value): one byte reaches the file, or the write fails, or
\* nothing is left to write.
PutWriteAll ==
    /\ put.pc = "write_all"
    /\ IF put.written = Len(put.value)
       THEN /\ put' = [put EXCEPT !.pc = "sync_all"]
            /\ UNCHANGED fstore
       ELSE \E ok \in BOOLEAN :
              IF ok
              THEN /\ fstore' = [fstore EXCEPT !.files[PutTmpPath] =
                                    Append(@, put.value[put.written + 1])]
                   /\ put' = [put EXCEPT !.written = @ + 1]
              ELSE /\ put' = [put EXCEPT !.pc = "remove_file"]
                   /\ UNCHANGED fstore
    /\ UNCHANGED ops
    /\ PutUnchanged

\* f.flush()?; f.sync_all()?: the file's content is unchanged.
PutSyncAll ==
    /\ put.pc = "sync_all"
    /\ \E ok \in BOOLEAN :
         put' = [put EXCEPT !.pc = IF ok THEN "rename" ELSE "remove_file"]
    /\ UNCHANGED <<fstore, ops>>
    /\ PutUnchanged

\* fs::rename(&tmp_path, &path); success returns true.
PutRename ==
    /\ put.pc = "rename"
    /\ \E ok \in BOOLEAN :
         IF ok
         THEN /\ fstore' = fs_rename(fstore, PutTmpPath, PutPath)
              /\ put' = [put EXCEPT !.pc = "returned", !.result = TRUE]
         ELSE /\ put' = [put EXCEPT !.pc = "remove_file"]
              /\ UNCHANGED fstore
    /\ UNCHANGED ops
    /\ PutUnchanged

\* if result.is_err() { let _ = fs::remove_file(&tmp_path); return false; }
PutRemoveFile ==
    /\ put.pc = "remove_file"
    /\ fstore' = fs_remove_file(fstore, PutTmpPath)
    /\ put' = [put EXCEPT !.pc = "returned", !.result = FALSE]
    /\ UNCHANGED ops
    /\ PutUnchanged

InitFS ==
    /\ coll = None
    /\ disk = EmptyDisk
    /\ last = [op |-> "FileStore::new"]
    /\ snap = None
    /\ ops = 0
    /\ proj = None
    /\ dropped = {}
    /\ saving = NotSaving
    /\ fstore = EmptyStore
    /\ put = NoPut
    /\ thr = [t \in Threads |-> Idle]
    /\ locks = Unlocked
    /\ bare = None
    /\ group = None

\* One FileStore; its put calls are followed step by step, and any step
\* that can report an I/O error may do so.
NextFS ==
    \/ PutCall
    \/ PutCreateDirAll
    \/ PutFileCreate
    \/ PutWriteAll
    \/ PutSyncAll
    \/ PutRename
    \/ PutRemoveFile

SpecFS == InitFS /\ [][NextFS]_vars

\* ------------------------------------------- concurrent file store actions
\* Two threads call put on one FileStore.  A file is an inode that a name
\* refers to: File::create hands out a handle on the inode, write_all
\* writes through the handle at the handle's own position, and rename and
\* remove_file change what the names refer to.
MaxPutsC == 2
KeysC == {<<"f", ".", "bin">>, <<"f", ".", "json">>, <<"f", ".", "tmp">>}

\* files: the bytes under each name; ino: the inode each name refers to;
\* next: the number of the next inode.
EmptyStoreC == [dirs |-> {}, files |-> EmptyMap, ino |-> EmptyMap, next |-> 1]

\* A thread that has called no put yet.
NoCall == [pc |-> "idle", key |-> <<>>, value |-> <<>>, written |-> 0, handle |-> 0,
           result |-> TRUE]

\* fs::File::create(path): a new empty file, or the existing file truncated.
file_create(d, path) ==
    IF path \in DOMAIN d.files
    THEN [d EXCEPT !.files = MapPut(@, path, <<>>)]
    ELSE [d EXCEPT !.files = MapPut(@, path, <<>>),
                   !.ino = MapPut(@, path, d.next),
                   !.next = @ + 1]

\* One byte written through a handle at position pos (from 1): the file the
\* handle is open on gets it, under whatever name it has now; a gap that a
\* truncation left before pos reads as zeros.
write_at(d, handle, pos, byte) ==
    LET names == {q \in DOMAIN d.ino : d.ino[q] = handle}
        path == CHOOSE q \in names : TRUE
        old == d.files[path]
    IN IF names = {} THEN d
       ELSE [d EXCEPT !.files = MapPut(@, path,
               IF pos <= Len(old) THEN [old EXCEPT ![pos] = byte]
               ELSE old \o [k \in 1..(pos - 1 - Len(old)) |-> 0] \o <<byte>>)]

\* fs::rename of an existing file.
rename_file(d, from, to) ==
    IF from = to THEN d
    ELSE [d EXCEPT !.files = MapPut(MapDel(@, from), to, d.files[from]),
                   !.ino = MapPut(MapDel(@, from), to, d.ino[from])]

CPath(t) == resolve_path(TheStore, thr[t].key)
CTmpPath(t) == with_extension(CPath(t), "tmp")

CPutUnchanged == UNCHANGED <<coll, disk, last, snap, proj, dropped, saving, put, locks, bare, group>>

\* Thread t calls put(key, value).
CPutCall(t) ==
    /\ thr[t].pc \in {"idle", "returned"}
    /\ ops < MaxPutsC
    /\ ops' = ops + 1
    /\ \E key \in KeysC, value \in Values :
         thr' = [thr EXCEPT ![t] = [pc |-> "create_dir_all", key |-> key, value |-> value,
                                    written |-> 0, handle |-> 0, result |-> TRUE]]
    /\ UNCHANGED fstore
    /\ CPutUnchanged

\* fs::create_dir_all(parent); an error returns false.
CPutCreateDirAll(t) ==
    /\ thr[t].pc = "create_dir_all"
    /\ \E ok \in BOOLEAN :
         IF ok
         THEN /\ fstore' = [fstore EXCEPT !.dirs = @ \cup {CPath(t).parent}]
              /\ thr' = [thr EXCEPT ![t].pc = "File::create"]
         ELSE /\ thr' = [thr EXCEPT ![t].pc = "returned", ![t].result = FALSE]
              /\ UNCHANGED fstore
    /\ UNCHANGED ops
    /\ CPutUnchanged

\* fs::File::create(&tmp_path).
CPutFileCreate(t) ==
    /\ thr[t].pc = "File::create"
    /\ \E ok \in BOOLEAN :
         IF ok
         THEN /\ fstore' = file_create(fstore, CTmpPath(t))
              /\ thr' = [thr EXCEPT ![t].pc = "write_all",
                                     ![t].handle = file_create(fstore, CTmpPath(t)).ino[CTmpPath(t)]]
         ELSE /\ thr' = [thr EXCEPT ![t].pc = "remove_file"]
              /\ UNCHANGED fstore
    /\ UNCHANGED ops
    /\ CPutUnchanged

\* f.write_all(value), byte by byte.
CPutWriteAll(t) ==
    /\ thr[t].pc = "write_all"
    /\ IF thr[t].written = Len(thr[t].value)
       THEN /\ thr' = [thr EXCEPT ![t].pc = "sync_all"]
            /\ UNCHANGED fstore
       ELSE \E ok \in BOOLEAN :
              IF ok
              THEN /\ fstore' = write_at(fstore, thr[t].handle, thr[t].written + 1,
                                         thr[t].value[thr[t].written + 1])
                   /\ thr' = [thr EXCEPT ![t].written = @ + 1]
              ELSE /\ thr' = [thr EXCEPT ![t].pc = "remove_file"]
                   /\ UNCHANGED fstore
    /\ UNCHANGED ops
    /\ CPutUnchanged

\* f.flush()?; f.sync_all()?
CPutSyncAll(t) ==
    /\ thr[t].pc = "sync_all"
    /\ \E ok \in BOOLEAN :
         thr' = [thr EXCEPT ![t].pc = IF ok THEN "rename" ELSE "remove_file"]
    /\ UNCHANGED <<fstore, ops>>
    /\ CPutUnchanged

\* fs::rename(&tmp_path, &path): fails when no file has the temp name any
\* more, and may fail otherwise; success returns true.
CPutRename(t) ==
    /\ thr[t].pc = "rename"
    /\ \E ok \in BOOLEAN :
         IF ok /\ CTmpPath(t) \in DOMAIN fstore.files
         THEN /\ fstore' = rename_file(fstore, CTmpPath(t), CPath(t))
              /\ thr' = [thr EXCEPT ![t].pc = "returned", ![t].result = TRUE]
         ELSE /\ thr' = [thr EXCEPT ![t].pc = "remove_file"]
              /\ UNCHANGED fstore
    /\ UNCHANGED ops
    /\ CPutUnchanged

\* if result.is_err() { let _ = fs::remove_file(&tmp_path); return false; }
CPutRemoveFile(t) ==
    /\ thr[t].pc = "remove_file"
    /\ fstore' = [fstore EXCEPT !.files = MapDel(@, CTmpPath(t)),
                                !.ino = MapDel(@, CTmpPath(t))]
    /\ thr' = [thr EXCEPT ![t].pc = "returned", ![t].result = FALSE]
    /\ UNCHANGED ops
    /\ CPutUnchanged

InitFSC ==
    /\ coll = None
    /\ disk = EmptyDisk
    /\ last = [op |-> "FileStore::new"]
    /\ snap = None
    /\ ops = 0
    /\ proj = None
    /\ dropped = {}
    /\ saving = NotSaving
    /\ fstore = EmptyStoreC
    /\ put = NoPut
    /\ thr = [t \in Threads |-> NoCall]
    /\ locks = Unlocked
    /\ bare = None
    /\ group = None

\* One FileStore shared by the threads; the steps of their put calls
\* interleave in any order.
NextFSC ==
    \/ \E t \in Threads : CPutCall(t)
    \/ \E t \in Threads : CPutCreateDirAll(t)
    \/ \E t \in Threads : CPutFileCreate(t)
    \/ \E t \in Threads : CPutWriteAll(t)
    \/ \E t \in Threads : CPutSyncAll(t)
    \/ \E t \in Threads : CPutRename(t)
    \/ \E t \in Threads : CPutRemoveFile(t)

SpecFSC == InitFSC /\ [][NextFSC]_vars

\* ------------------------------------------- calls from several threads
\* The calls the threads make on the one in-memory collection.
LockCalls ==
    {[op |-> "create_index", name |-> "i1",
      cfg |-> [index_type |-> "flat", distance |-> "l2"]],
     [op |-> "upsert_data", data_list |-> <<R1>>],
     [op |-> "upsert_data", data_list |-> <<R3>>],
     [op |-> "delete_data", primary_keys |-> <<Num(1)>>],
     [op |-> "delete_all_data"],
     [op |-> "search_by_vector", index_name |-> "i1", dense_vector |-> <<1, 0>>,
      limit |-> 2, offset |-> 0]}

\* The first lock each call takes.
FirstLock(call) ==
    CASE call.op = "create_index" -> "indexes.write"
      [] call.op = "search_by_vector" -> "indexes.read"
      [] OTHER -> "records.write"

InCall(t) == thr[t].pc \notin {"idle", "returned"}

\* The lock thread t is about to take can be granted.
Grantable(t) ==
    CASE thr[t].pc = "indexes.write" -> CanWrite(locks.indexes)
      [] thr[t].pc = "indexes.read" -> CanRead(locks.indexes)
      [] thr[t].pc = "records.write" -> CanWrite(locks.records)
      [] thr[t].pc = "records.read" -> CanRead(locks.records)
      [] OTHER -> FALSE

At(t, op, pc) == thr[t].call.op = op /\ thr[t].pc = pc /\ Grantable(t)

\* The call returns: its guards are dropped.
Return(t, result) ==
    /\ thr' = [thr EXCEPT ![t] = [@ EXCEPT !.pc = "returned", !.result = result]]
    /\ locks' = [n \in DOMAIN locks |-> RwLock_release(locks[n], t)]

Goto(t, pc) == thr' = [thr EXCEPT ![t] = [@ EXCEPT !.pc = pc]]

LockUnchanged == UNCHANGED <<disk, last, snap, proj, dropped, saving, fstore, put, bare, group>>

\* Thread t calls one of the operations.
Call(t) ==
    /\ ~InCall(t)
    /\ ops < MaxCalls
    /\ ops' = ops + 1
    /\ \E call \in LockCalls :
         thr' = [thr EXCEPT ![t] = [pc |-> FirstLock(call), call |-> call,
                                    found |-> <<>>, result |-> None]]
    /\ UNCHANGED <<coll, locks>>
    /\ LockUnchanged

\* create_index: let mut indexes = self.indexes.write(); contains_key.
CreateIndexLockIndexes(t) ==
    /\ At(t, "create_index", "indexes.write")
    /\ IF has_index(coll, thr[t].call.name)
       THEN Return(t, [error |-> "IndexAlreadyExists"])
       ELSE /\ locks' = [locks EXCEPT !.indexes = RwLock_write(@, t)]
            /\ Goto(t, "records.read")
    /\ UNCHANGED <<coll, ops>>
    /\ LockUnchanged

\* create_index: let records = self.records.read(); replay; insert.
CreateIndexLockRecords(t) ==
    /\ At(t, "create_index", "records.read")
    /\ \E order \in Orders(DOMAIN coll.records) :
         coll' = create_index(coll, thr[t].call.name, thr[t].call.cfg, order,
                              [l \in DOMAIN coll.records |-> 0]).coll
    /\ Return(t, [ok |-> TRUE])
    /\ UNCHANGED ops
    /\ LockUnchanged

\* upsert_data, delete_data: let mut records = self.records.write();
WriteLockRecords(t) ==
    /\ \/ At(t, "upsert_data", "records.write")
       \/ At(t, "delete_data", "records.write")
    /\ locks' = [locks EXCEPT !.records = RwLock_write(@, t)]
    /\ Goto(t, "indexes.read")
    /\ UNCHANGED <<coll, ops>>
    /\ LockUnchanged

\* upsert_data: let indexes = self.indexes.read(); and the loop.
UpsertLockIndexes(t) ==
    /\ At(t, "upsert_data", "indexes.read")
    /\ LET r == upsert_data(coll, thr[t].call.data_list,
                            [i \in DOMAIN thr[t].call.data_list |->
                               [n \in HnswNames(coll) |-> 0]])
       IN /\ coll' = r.coll
          /\ Return(t, r.result)
    /\ UNCHANGED ops
    /\ LockUnchanged

\* delete_data: let indexes = self.indexes.read(); and the loop.
DeleteLockIndexes(t) ==
    /\ At(t, "delete_data", "indexes.read")
    /\ coll' = delete_data(coll, thr[t].call.primary_keys)
    /\ Return(t, [ok |-> TRUE])
    /\ UNCHANGED ops
    /\ LockUnchanged

\* delete_all_data: let mut records = self.records.write(); records.clear();
DeleteAllLockRecords(t) ==
    /\ At(t, "delete_all_data", "records.write")
    /\ locks' = [locks EXCEPT !.records = RwLock_write(@, t)]
    /\ coll' = [coll EXCEPT !.records = EmptyMap]
    /\ Goto(t, "indexes.write")
    /\ UNCHANGED ops
    /\ LockUnchanged

\* delete_all_data: let mut indexes = self.indexes.write(); new indexes.
DeleteAllLockIndexes(t) ==
    /\ At(t, "delete_all_data", "indexes.write")
    /\ coll' = delete_all_data(coll)
    /\ Return(t, [ok |-> TRUE])
    /\ UNCHANGED ops
    /\ LockUnchanged

\* search_by_vector: let indexes = self.indexes.read(); ci.index.search.
SearchLockIndexes(t) ==
    /\ At(t, "search_by_vector", "indexes.read")
    /\ IF ~has_index(coll, thr[t].call.index_name)
       THEN Return(t, [error |-> "IndexNotFound"])
       ELSE /\ locks' = [locks EXCEPT !.indexes = RwLock_read(@, t)]
            /\ thr' = [thr EXCEPT ![t] =
                         [@ EXCEPT !.pc = "records.read",
                                   !.found = index_search(
                                       coll.indexes[thr[t].call.index_name].index,
                                       thr[t].call.dense_vector,
                                       thr[t].call.limit + thr[t].call.offset)]]
    /\ UNCHANGED <<coll, ops>>
    /\ LockUnchanged

\* search_by_vector: let records = self.records.read(); and the loop, which
\* takes records.read() again in label_to_pk.
SearchLockRecords(t) ==
    /\ At(t, "search_by_vector", "records.read")
    /\ Return(t, [data |-> SearchItems(coll, thr[t].found, thr[t].call.limit,
                                       thr[t].call.offset)])
    /\ UNCHANGED <<coll, ops>>
    /\ LockUnchanged

\* Thread t takes the next lock of its call and runs on to the one after.
Step(t) ==
    \/ CreateIndexLockIndexes(t)
    \/ CreateIndexLockRecords(t)
    \/ WriteLockRecords(t)
    \/ UpsertLockIndexes(t)
    \/ DeleteLockIndexes(t)
    \/ DeleteAllLockRecords(t)
    \/ DeleteAllLockIndexes(t)
    \/ SearchLockIndexes(t)
    \/ SearchLockRecords(t)

NextLock == \E t \in Threads : Call(t) \/ Step(t)

\* Threads calling into one in-memory collection; a thread whose lock can be
\* granted is eventually scheduled.
SpecLock == Init /\ [][NextLock]_vars /\ \A t \in Threads : WF_vars(Step(t))

\* ------------------------------------------------------------------ claims
TopK == 3

\* The records of a batch that upsert_data stored: all of them when it
\* returned ids, those before the rejected one when it returned the error.
NumericCount(r) ==
    IF "vec" \in DOMAIN r /\ IsArr(r.vec) THEN Len(SelectSeq(r.vec.arr, IsNumber)) ELSE 0
StoredCount(data_list, result) ==
    IF "ids" \in DOMAIN result THEN Len(data_list)
    ELSE (CHOOSE i \in DOMAIN data_list :
             /\ NumericCount(data_list[i]) \notin {0, 2}
             /\ \A j \in 1..(i - 1) : NumericCount(data_list[j]) \in {0, 2}) - 1
\* The field map fetch_data owes for an upserted record r: r's fields, the
\* vector field holding the numeric elements of r's vector as floats.
Rematerialized(r) ==
    MapPut(r, "vec",
           IF "vec" \in DOMAIN r /\ IsArr(r.vec)
           THEN Arr([i \in 1..NumericCount(r) |->
                       Flt(as_f64(SelectSeq(r.vec.arr, IsNumber)[i]))])
           ELSE Arr(<<>>))
\* No later record of the batch writes r's key (a record without a key is
\* given one by the collection, so it may).
LastWrite(data_list, i, n) ==
    \A j \in (i + 1)..n :
        /\ "id" \in DOMAIN data_list[j]
        /\ value_to_u64(data_list[j].id) # value_to_u64(data_list[i].id)

C4_SearchedLabelsAreRecords ==
    \A n \in DOMAIN coll.indexes, q \in Queries :
        LET found == index_search(coll.indexes[n].index, q, TopK)
        IN \A i \in DOMAIN found :
              /\ found[i].id \in DOMAIN coll.records
              /\ fetch_data(coll, <<Num(found[i].id)>>) # <<None>>

\* A delete has removed a record and an index still answers a search.
C4_Witness ==
    /\ last.op = "delete_data"
    /\ \E pk \in Range(last.primary_keys) : value_to_u64(pk) \notin DOMAIN coll.records
    /\ \E n \in DOMAIN coll.indexes, q \in Queries :
          index_search(coll.indexes[n].index, q, TopK) # <<>>

\* C5: every record whose vector is non-empty is a live label of every
\* named index, also of an index created after the record was upserted.
C5_RecordsAreIndexed ==
    \A n \in DOMAIN coll.indexes, l \in DOMAIN coll.records :
        coll.records[l].vector # <<>> => l \in LiveLabels(coll.indexes[n].index)

\* An index was created over two existing records with vectors.
C5_Witness ==
    /\ last.op = "create_index"
    /\ last.result = "Ok"
    /\ Cardinality({l \in DOMAIN coll.records : coll.records[l].vector # <<>>}) = 2
    /\ index_len(coll.indexes[last.name].index) = 2

\* The last call is a write that returned without error.
Succeeded ==
    CASE last.op = "create_index" -> last.result = "Ok"
      [] last.op = "upsert_data" -> "ids" \in DOMAIN last.result
      [] last.op \in {"delete_data", "delete_all_data"} -> TRUE
      [] OTHER -> FALSE

\* C1: a collection opened after a close or drop in state S has the count
\* of S, and fetch_data returns for every key the record it had in S
\* (null for a key that S does not hold).
C1_ReopenRestoresRecords ==
    (last.op = "with_path" /\ snap # None) =>
        /\ count(coll) = count(snap)
        /\ fetch_data(coll, <<Num(1), Num(2), Str("a")>>)
             = fetch_data(snap, <<Num(1), Num(2), Str("a")>>)

\* C2: every index that existed at the close exists after the reopen and
\* search_by_vector on it returns what it returned before the close.
C2_ReopenRestoresIndexes ==
    (last.op = "with_path" /\ snap # None) =>
        \A n \in DOMAIN snap.indexes :
            /\ has_index(coll, n)
            /\ \A q \in Queries :
                  search_by_vector(coll, n, q, TopK, 0) = search_by_vector(snap, n, q, TopK, 0)

\* C8: after every successful write on a persistent collection the
\* directory holds the complete config blob, the records blob of the
\* current records and a subdirectory for each named index.
C8_DirectoryCompleteAfterWrite ==
    (coll # None /\ Succeeded) =>
        /\ ConfigPath(CollPath) \in DOMAIN disk.files
        /\ disk.files[ConfigPath(CollPath)] = JsonDoc("CollectionConfig", coll.config)
        /\ RecordsPath(CollPath) \in DOMAIN disk.files
        /\ disk.files[RecordsPath(CollPath)] = RecordsToJson(coll.records)
        /\ \A n \in DOMAIN coll.indexes : IndexDir(CollPath, n) \in disk.dirs

\* C6: once Project::drop_collection(name) has returned, the collection's
\* directory does not exist, and a project opened from the same root
\* afterwards does not hold the collection.
C6_DroppedCollectionIsGone ==
    /\ last.op = "drop_collection" => ~path_exists(disk, Join(ProjPath, last.name))
    /\ last.op = "Project::with_path" => \A n \in dropped : ~has_collection(proj, n)

\* C7: in every intermediate state of a persist, every file it writes
\* holds either the complete content it had before or the complete new
\* content, and a file that existed before still exists.
C7_SavesAreAtomic ==
    \A f \in DOMAIN saving.after :
        IF f \in DOMAIN saving.before
        THEN /\ f \in DOMAIN disk.files
             /\ disk.files[f] \in {saving.before[f], saving.after[f]}
        ELSE f \in DOMAIN disk.files => disk.files[f] = saving.after[f]

\* C9: from the call of put(key, value) on, at every step and after its
\* return, get(key) is the complete value from before the call or the
\* complete new value; after a put that returned false the temp file is
\* not there, unless it was there, with that content, before the call.
C9_PutIsAtomicReplace ==
    put.pc # "idle" =>
        /\ FileStore_get(TheStore, fstore, put.key) \in {put.prev, [some |-> put.value]}
        /\ (put.pc = "returned" /\ ~put.result) =>
               (PutTmpPath \in DOMAIN fstore.files =>
                   [some |-> fstore.files[PutTmpPath]] = put.tmp_prev)

\* C10: the calls in progress never block one another for good: while some
\* thread is inside a call, the lock some such thread waits for can be
\* granted.
C10_NoDeadlock ==
    (\E t \in Threads : InCall(t)) => (\E t \in Threads : InCall(t) /\ Grantable(t))

\* Thread t holds lock l, for reading or for writing.
Holds(t, l) == l.w = t \/ t \in l.r

\* C11: locks are requested in the order record map, index map: a thread
\* asking for the record-map lock holds neither the index-map lock nor the
\* record-map lock, and a thread asking for the index-map lock does not hold
\* the index-map lock.
C11_LockOrder ==
    \A t \in Threads :
        /\ thr[t].pc \in {"records.read", "records.write"} =>
               ~Holds(t, locks.indexes) /\ ~Holds(t, locks.records)
        /\ thr[t].pc \in {"indexes.read", "indexes.write"} => ~Holds(t, locks.indexes)

\* C12: when search_by_vector builds its items, under records.read(), every
\* label it builds an item for is a key of the record map.
C12_SearchItemsHaveRecords ==
    [][\A t \in Threads :
         (/\ thr[t].call.op = "search_by_vector"
          /\ thr[t].pc = "records.read"
          /\ thr'[t].pc = "returned") =>
             \A k \in 1..Len(thr'[t].result.data) :
                 thr[t].found[k + thr[t].call.offset].id \in DOMAIN coll.records]_vars

\* The keys a batch's stored records write that the record map did not hold.
FreshLabels(c, data_list, n) ==
    {value_to_u64(data_list[i].id) : i \in 1..n} \ DOMAIN c.records

\* C13: an upsert_data step whose stored records all carry a primary key
\* adds one record per key that was not present, none for a key that was
\* (from an earlier call or earlier in the batch), and fetch_data of each
\* key then returns the fields of the last record written under it.
C13_UpsertLastWriterWins ==
    [][last'.op = "upsert_data" =>
         LET data_list == last'.data_list
             n == StoredCount(data_list, last'.result)
         IN (\A i \in 1..n : "id" \in DOMAIN data_list[i]) =>
              /\ count(coll') = count(coll) + Cardinality(FreshLabels(coll, data_list, n))
              /\ \A i \in 1..n :
                   LastWrite(data_list, i, n) =>
                     fetch_data(coll', <<data_list[i].id>>) = <<Rematerialized(data_list[i])>>]_vars

\* A key written twice in one batch leaves one record, and a stored key
\* (still live in an index from the earlier call) is written again.
C13_Witness ==
    /\ last.op = "upsert_data"
    /\ "ids" \in DOMAIN last.result
    /\ count(coll) = 1
    /\ \/ last.data_list = <<R1, R2>>
       \/ /\ last.data_list = <<R4>>
          /\ \E n \in DOMAIN coll.indexes : 1 \in LiveLabels(coll.indexes[n].index)

\* The labels of the first n records of a batch, and of those among them
\* that carry a vector.
PrefixLabels(data_list, n) == {value_to_u64(data_list[i].id) : i \in 1..n}
PrefixVectorLabels(data_list, n) ==
    {value_to_u64(data_list[i].id) : i \in {j \in 1..n : NumericCount(data_list[j]) > 0}}

\* C14: an upsert_data step that returns DimensionMismatch reports the
\* collection dimension and the length of the first offending vector; the
\* records before that one are in the record map and, when they carry a
\* vector, in every index; no other key of the record map and no other
\* label of an index has changed.
C14_MismatchKeepsPrefixOnly ==
    [][(last'.op = "upsert_data" /\ "error" \in DOMAIN last'.result) =>
         LET data_list == last'.data_list
             n == StoredCount(data_list, last'.result)
         IN (\A i \in 1..n : "id" \in DOMAIN data_list[i]) =>
              /\ last'.result = [error |-> "DimensionMismatch",
                                 expected |-> dimension(coll.config),
                                 got |-> NumericCount(data_list[n + 1])]
              /\ DOMAIN coll'.records = DOMAIN coll.records \cup PrefixLabels(data_list, n)
              /\ \A l \in DOMAIN coll.records \ PrefixLabels(data_list, n) :
                   coll'.records[l] = coll.records[l]
              /\ DOMAIN coll'.indexes = DOMAIN coll.indexes
              /\ \A x \in DOMAIN coll.indexes :
                   LiveLabels(coll'.indexes[x].index) =
                     LiveLabels(coll.indexes[x].index) \cup PrefixVectorLabels(data_list, n)]_vars

\* A three-record batch rejected at its second record, on a collection that
\* has an index: the first record is stored, the third is not.
C14_Witness ==
    /\ last.op = "upsert_data"
    /\ last.data_list = <<R8, R6, R1>>
    /\ "error" \in DOMAIN last.result
    /\ DOMAIN coll.records = {2}
    /\ DOMAIN coll.indexes # {}

\* A key list without the repetitions of a key.
RECURSIVE Dedup(_)
Dedup(ks) ==
    IF ks = <<>> THEN <<>>
    ELSE LET d == Dedup(SubSeq(ks, 1, Len(ks) - 1))
         IN IF \E i \in DOMAIN d : value_to_u64(d[i]) = value_to_u64(ks[Len(ks)])
            THEN d ELSE Append(d, ks[Len(ks)])

\* C15: a delete_data step leaves the record map and the indexes as one
\* deletion of each named key leaves them, however often the list names a
\* key; count() drops by one per stored key named; and deleting the same
\* keys once more changes neither the record map nor any index.
C15_DeleteIsIdempotent ==
    [][last'.op = "delete_data" =>
         LET ks == last'.primary_keys
             once == delete_data(coll, Dedup(ks))
             again == delete_data(coll', ks)
         IN /\ coll'.records = once.records
            /\ coll'.indexes = once.indexes
            /\ count(coll') = count(coll)
                 - Cardinality({value_to_u64(ks[i]) : i \in DOMAIN ks} \cap DOMAIN coll.records)
            /\ again.records = coll'.records
            /\ again.indexes = coll'.indexes]_vars

\* A key list naming key 1 twice has deleted the stored record 1 from the
\* record map and from an HNSW index.
C15_Witness ==
    /\ last.op = "delete_data"
    /\ last.primary_keys = <<Num(1), Num(1)>>
    /\ 1 \notin DOMAIN coll.records
    /\ \E n \in DOMAIN coll.indexes :
         /\ coll.indexes[n].index.kind = "hnsw"
         /\ coll.indexes[n].index.deleted # {}

\* The (limit, offset) pairs searched with.
Pages == {[limit |-> 2, offset |-> 0], [limit |-> 1, offset |-> 1],
          [limit |-> 2, offset |-> 1], [limit |-> 1, offset |-> 2],
          [limit |-> 0, offset |-> 0]}

\* C16: without a filter, search_by_vector returns the index's hits for
\* top_k = limit + offset from position offset on, limit of them or all that
\* are left, best score first, each with the score the index gave, the
\* fields of its record and the record's primary-key value.
C16_SearchPagesIndexResult ==
    \A name \in DOMAIN coll.indexes, q \in Queries, pg \in Pages :
        LET idx == index_search(coll.indexes[name].index, q, pg.limit + pg.offset)
            r == search_by_vector(coll, name, q, pg.limit, pg.offset)
            left == IF Len(idx) > pg.offset THEN Len(idx) - pg.offset ELSE 0
        IN /\ "data" \in DOMAIN r
           /\ Len(r.data) = IF left < pg.limit THEN left ELSE pg.limit
           /\ \A k \in 1..Len(r.data) :
                LET label == idx[pg.offset + k].id
                IN /\ label \in DOMAIN coll.records
                   /\ r.data[k].score = idx[pg.offset + k].score
                   /\ r.data[k].fields = coll.records[label].fields
                   /\ r.data[k].id = IF "id" \in DOMAIN coll.records[label].fields
                                     THEN coll.records[label].fields.id ELSE Num(label)
           /\ \A k \in 1..(Len(r.data) - 1) : ~RatLt(r.data[k].score, r.data[k + 1].score)

\* An index with two hits for a query, searched with offset 1: the second
\* hit alone comes back.
C16_Witness ==
    \E name \in DOMAIN coll.indexes :
        /\ Len(index_search(coll.indexes[name].index, <<1, 0>>, 2)) = 2
        /\ Len(search_by_vector(coll, name, <<1, 0>>, 1, 1).data) = 1
        /\ Len(search_by_vector(coll, name, <<1, 0>>, 1, 2).data) = 0


\* The filters searched with, as JSON values.
MustA == Obj([op |-> Str("must"), field |-> Str("cat"), conds |-> Arr(<<Str("A")>>)])
MustNotA == Obj([op |-> Str("must_not"), field |-> Str("cat"), conds |-> Arr(<<Str("A")>>)])
FiltersF == {MustA, MustNotA,
             Obj([op |-> Str("range"), field |-> Str("id"), gte |-> Num(2)]),
             Obj([op |-> Str("or"),
                  conds |-> Arr(<<MustA, Obj([op |-> Str("prefix"), field |-> Str("id"),
                                              prefix |-> Str("a")])>>)])}
PagesF == Pages \cup {[limit |-> 1, offset |-> 0]}

\* C17: with a filter that parses, search_by_vector returns, of the index's
\* first (limit + offset) * 10 hits, those whose record's fields satisfy the
\* filter, in the order of the hits, from survivor offset + 1 on and at most
\* limit of them; every returned item satisfies the filter, and when no more
\* than limit survivors exist at offset 0 all of them are returned.
C17_FilterKeepsWindowSurvivors ==
    \A name \in DOMAIN coll.indexes, q \in Queries, pg \in PagesF, fj \in FiltersF :
        LET f == Filter_from_json(fj)
            cand == index_search(coll.indexes[name].index, q, (pg.limit + pg.offset) * 10)
            Survives(h) == /\ h.id \in DOMAIN coll.records
                           /\ matches(f, coll.records[h.id].fields)
            surv == SelectSeq(cand, Survives)
            r == search_by_vector_filtered(coll, name, q, pg.limit, pg.offset, fj)
            left == IF Len(surv) > pg.offset THEN Len(surv) - pg.offset ELSE 0
        IN /\ f # None
           /\ "data" \in DOMAIN r
           /\ Len(r.data) = IF left < pg.limit THEN left ELSE pg.limit
           /\ \A k \in 1..Len(r.data) :
                LET h == surv[pg.offset + k]
                IN /\ r.data[k].score = h.score
                   /\ r.data[k].fields = coll.records[h.id].fields
                   /\ r.data[k].id = label_to_pk(coll, h.id)
                   /\ matches(f, r.data[k].fields)

\* An index over more than ten records whose only record of category A is
\* the eleventh hit: a search for category A with limit 1 returns nothing,
\* and a search for the other records with limit 2 and offset 1 returns the
\* second and third of them.
C17_Witness ==
    \E name \in DOMAIN coll.indexes :
        LET ix == coll.indexes[name].index
            r == search_by_vector_filtered(coll, name, <<1, 0>>, 2, 1, MustNotA)
        IN /\ search_by_vector_filtered(coll, name, <<1, 0>>, 1, 0, MustA).data = <<>>
           /\ \E l \in LiveLabels(ix) :
                l \in DOMAIN coll.records /\ matches(Filter_from_json(MustA), coll.records[l].fields)
           /\ Len(index_search(ix, <<1, 0>>, 10)) = 10
           /\ Len(r.data) = 2
           /\ r.data[1].id = Num(12)


\* The score of a stored vector for a query by a full scan: the metric's
\* kernel on the vector as it was given.
ReferenceScore(metric, q, v) == compute_score(metric, FVec(q), FVec(v))
\* The values of top_k searched with.
MaxK == 4

\* C18: a flat index with n live labels answers search(q, K), for a query
\* of its dimension, with min(K, n) pairs of distinct live labels, best
\* score first, each with its reference score, and no live label left out
\* has a better reference score than one returned; K = 0 or n = 0 gives
\* the empty result.
C18_FlatSearchIsTopK ==
    bare # None /\ bare.index.kind = "flat" =>
      \A q \in QueriesI, K \in 0..MaxK :
        LET r == FlatIndex_search(bare.index, q, K)
            n == Cardinality(DOMAIN bare.given)
            ids == {r[k].id : k \in DOMAIN r}
            Ref(l) == ReferenceScore(bare.index.metric, q, bare.given[l])
        IN /\ Len(r) = IF K < n THEN K ELSE n
           /\ Cardinality(ids) = Len(r)
           /\ ids \subseteq DOMAIN bare.given
           /\ \A k \in DOMAIN r : RatEq(r[k].score, Ref(r[k].id))
           /\ \A k \in 1..(Len(r) - 1) : ~RatLt(r[k].score, r[k + 1].score)
           /\ \A l \in DOMAIN bare.given \ ids, k \in DOMAIN r : ~RatGt(Ref(l), r[k].score)

\* A flat index that has seen a deletion from the middle of its slots holds
\* two labels, the better one for the query in the later slot, and a
\* search with K = 1 returns that one.
C18_Witness ==
    /\ bare # None
    /\ bare.index.kind = "flat"
    /\ ops >= 3
    /\ Len(bare.index.labels) = 2
    /\ Cardinality(DOMAIN bare.given) = 2
    /\ FlatIndex_search(bare.index, <<1, 0>>, 1)[1].id = bare.index.labels[2]
    /\ RatGt(FlatIndex_search(bare.index, <<1, 0>>, 2)[1].score,
             FlatIndex_search(bare.index, <<1, 0>>, 2)[2].score)


\* C19: an HNSW index with n live labels, n <= ef_search, answers
\* search(q, K) for K >= n with exactly the n live labels, whatever inserts
\* and deletes came before.
C19_HnswReturnsAllLive ==
    bare # None /\ bare.index.kind = "hnsw" =>
      \A q \in Queries, K \in 1..MaxK :
        LET n == Cardinality(DOMAIN bare.given)
            r == HnswIndex_search(bare.index, q, K)
        IN n <= bare.index.ef_search /\ K >= n =>
             /\ Len(r) = n
             /\ {r[k].id : k \in DOMAIN r} = DOMAIN bare.given

\* The internal ids of the live nodes.
LiveIds(ix) == {ix.label_to_id[l] : l \in DOMAIN ix.label_to_id}

\* C20: in an HNSW index entry_point is defined exactly when a live label
\* exists, and max_level is the highest level of a live node.
C20_EntryPointIffLive ==
    bare # None /\ bare.index.kind = "hnsw" =>
      /\ bare.index.entry_point # 0 <=> LiveIds(bare.index) # {}
      /\ LiveIds(bare.index) # {} =>
           bare.index.max_level = SetMax({bare.index.node_levels[id] : id \in LiveIds(bare.index)})


\* The labels stored in an HNSW index, live or deleted.
StoredLabels(ix) == {ix.id_to_label[i] : i \in DOMAIN ix.id_to_label}
\* The labels that have a deleted node and are not live.
DeletedLabels(ix) == {ix.id_to_label[i] : i \in ix.deleted} \ DOMAIN ix.label_to_id

\* C21: save followed by load makes every stored id live again: the loaded
\* index has an empty deleted set, its len() is the number of stored
\* labels, and a search with K at least that number returns the labels that
\* were deleted before the save.
C21_LoadRevivesDeleted ==
    [][HnswReload =>
         /\ bare'.index.deleted = {}
         /\ HnswIndex_len(bare'.index) = Cardinality(StoredLabels(bare.index))
         /\ \A q \in Queries :
              DeletedLabels(bare.index) \subseteq
                {HnswIndex_search(bare'.index, q, MaxK)[k].id :
                   k \in DOMAIN HnswIndex_search(bare'.index, q, MaxK)}]_vars

\* A saved index with a deleted label, loaded: the label is live again and
\* a search returns it.
C21_Witness ==
    /\ bare # None
    /\ bare.index.kind = "hnsw"
    /\ bare.index.deleted = {}
    /\ Len(bare.index.id_to_label) = 2
    /\ Cardinality(DOMAIN bare.index.label_to_id) = 2
    /\ ops = 4
    /\ Len(HnswIndex_search(bare.index, <<1, 0>>, MaxK)) = 2


\* C22: a persistent project that is closed, dropped and opened again from
\* the same root holds the collections it held at the close, under the
\* names they were created with and with the same count().
C22_ReopenKeepsNames ==
    proj # None =>
      \A order \in Orders(read_dir(Project_drop(proj, disk), ProjPath)) :
        LET reopened == Project_with_path("p", ProjPath, Project_drop(proj, disk), order).proj
        IN /\ DOMAIN reopened.collections = DOMAIN proj.collections
           /\ \A name \in DOMAIN proj.collections :
                /\ has_collection(reopened, name)
                /\ count(reopened.collections[name]) = count(proj.collections[name])

\* A project holding a collection with a record, created with cfg.name
\* equal to its name, which a reopen finds again.
C22_Witness ==
    /\ proj # None
    /\ last.op = "Project::with_path"
    /\ \E name \in DOMAIN proj.collections : count(proj.collections[name]) = 1


C24_DuplicateNamesRejected ==
    [][/\ (last'.op = "create_project" /\ has_project(group, last'.name)) =>
            last'.result = "ProjectAlreadyExists" /\ group' = group /\ disk' = disk
       /\ (last'.op = "create_collection"
             /\ has_collection(group.projects[last'.project], last'.name)) =>
            last'.result = "CollectionAlreadyExists" /\ group' = group /\ disk' = disk
       /\ (last'.op = "create_index"
             /\ has_index(group.projects[last'.project].collections[last'.collection],
                          last'.name)) =>
            last'.result = "IndexAlreadyExists" /\ group' = group /\ disk' = disk
      ]_vars

\* create_project("default") was refused while "default" holds a
\* collection with an index.
C24_Witness ==
    /\ group # None
    /\ last.op = "create_project"
    /\ last.name = "default"
    /\ last.result = "ProjectAlreadyExists"
    /\ has_project(group, "default")
    /\ \E cname \in DOMAIN group.projects["default"].collections :
         group.projects["default"].collections[cname].indexes # EmptyMap


\* C25: a delete of what is not there changes nothing, in memory or on
\* disk: index.delete of a label the index does not hold, delete_data of
\* keys whose labels are not stored, drop_collection of a name the project
\* does not have and delete_project of a name the group does not have.
C25_AbsentDeletesChangeNothing ==
    [][/\ (last'.op = "index.delete" /\ last'.label \notin LiveLabels(bare.index)) =>
            bare' = bare /\ group' = group /\ disk' = disk
       /\ (last'.op = "delete_data"
             /\ \A i \in DOMAIN last'.primary_keys :
                  value_to_u64(last'.primary_keys[i]) \notin
                    DOMAIN group.projects[last'.project].collections[last'.collection].records) =>
            group' = group /\ disk' = disk /\ bare' = bare
       /\ (last'.op = "drop_collection"
             /\ ~has_collection(group.projects[last'.project], last'.name)) =>
            group' = group /\ disk' = disk /\ bare' = bare
       /\ (last'.op = "delete_project" /\ ~has_project(group, last'.name)) =>
            group' = group /\ disk' = disk /\ bare' = bare
      ]_vars

\* index.delete was called with a label that is not in an index that
\* holds another one, next to a persistent group with a collection.
C25_Witness ==
    /\ last.op = "index.delete"
    /\ last.label \notin DOMAIN bare.given
    /\ bare.given # EmptyMap
    /\ LiveLabels(bare.index) = DOMAIN bare.given
    /\ group.path # None
    /\ \E pname \in DOMAIN group.projects : group.projects[pname].collections # EmptyMap


\* C26: after delete_all_data the collection holds no record, has the
\* index names it had, each index is empty and of the type and metric it
\* had, and a vector search on any of them returns no item.
C26_DeleteAllEmptiesIndexes ==
    [][last'.op = "delete_all_data" =>
         /\ count(coll') = 0
         /\ DOMAIN coll'.indexes = DOMAIN coll.indexes
         /\ \A n \in DOMAIN coll.indexes :
              /\ index_len(coll'.indexes[n].index) = 0
              /\ coll'.indexes[n].config = coll.indexes[n].config
              /\ coll'.indexes[n].index.kind = coll.indexes[n].index.kind
              /\ coll'.indexes[n].index.metric = coll.indexes[n].index.metric
              /\ \A q \in Queries, limit \in 0..TopK :
                   search_by_vector(coll', n, q, limit, 0) = [data |-> <<>>]
      ]_vars

\* delete_all_data ran on a collection with an HNSW index after a record
\* without a key had been stored under an automatic id.
C26_Witness ==
    /\ last.op = "delete_all_data"
    /\ coll.next_auto_id > 1
    /\ \E n \in DOMAIN coll.indexes : coll.indexes[n].index.kind = "hnsw"


\* C27: on every record, and([F1, F2]) matches exactly when F1 and F2
\* both match and or([F1, F2]) exactly when one of them does; and([]) is
\* true and or([]) is false; must_not is the negation of must when the
\* record has the field and is true when it has not.
C27_FilterAlgebra ==
    /\ last.op = "matches_pair" =>
         /\ last.and = (last.m1 /\ last.m2)
         /\ last.or = (last.m1 \/ last.m2)
    /\ last.op = "matches_empty" => last.and /\ ~last.or
    /\ last.op = "matches_must" =>
         IF last.field \in DOMAIN last.fields
         THEN last.must_not = ~last.must
         ELSE last.must_not

\* A conjunction of a filter that matches and one that does not, one of
\* them a must_not on a field the record lacks.
C27_Witness ==
    /\ last.op = "matches_pair"
    /\ last.m1 /\ ~last.m2
    /\ last.f1 = MustNotM("tags", <<Str("x")>>)
    /\ "tags" \notin DOMAIN last.fields
    /\ ~last.and /\ last.or


\* The type-specific zero of a field type.
ZeroOf(dt) ==
    CASE dt = "Int64" -> Num(0)
      [] dt = "Boolean" -> Bool(FALSE)
      [] dt \in {"String", "Binary"} -> Text(<<>>)

\* The map with the declared default, or the zero, for every absent key.
WithDefaults(schema, data) ==
    [name \in {schema[i].name : i \in DOMAIN schema} |->
       LET field == schema[CHOOSE i \in DOMAIN schema : schema[i].name = name]
       IN IF name \in DOMAIN data THEN data[name]
          ELSE IF field.default_value # None THEN field.default_value
          ELSE ZeroOf(field.data_type)]

\* C28: a field map whose keys and value types the schema declares comes
\* back from deserialize(serialize(M)) as M with the default, or the zero
\* of the type, for every absent key, whatever the length of its strings.
C28_RoundTrip ==
    last.op = "deserialize" => last.result = WithDefaults(last.schema, last.data)

\* The round trip with every string shorter than 65536 bytes.
C28_RoundTripShortStrings ==
    (/\ last.op = "deserialize"
     /\ \A k \in DOMAIN last.data : IsStr(last.data[k]) => RLen(last.data[k].str) < LongText)
    => last.result = WithDefaults(last.schema, last.data)

\* A string of 65539 bytes came back as its first three bytes, and the
\* integer after it was read from the string's own bytes.
C28_Witness ==
    /\ last.op = "deserialize"
    /\ "s" \in DOMAIN last.data /\ "n" \in DOMAIN last.data
    /\ last.data.s = Text(Run(120, LongText + 3))
    /\ last.schema[1].name = "s"
    /\ last.result.s = Text(Run(120, 3))
    /\ last.result.n = Wide64([i \in 1..8 |-> 120])


\* C29: in every state of a flat index, labels and vectors have the same
\* length, label_to_idx has exactly one entry for each element of labels
\* and leads back to it, and len() is the number of live labels.
C29_FlatIndexConsistent ==
    bare.index.kind = "flat" =>
      LET ix == bare.index
      IN /\ Len(ix.labels) = Len(ix.vectors)
         /\ DOMAIN ix.label_to_idx = Range(ix.labels)
         /\ Cardinality(DOMAIN ix.label_to_idx) = Len(ix.labels)
         /\ \A l \in DOMAIN ix.label_to_idx :
              /\ ix.label_to_idx[l] \in DOMAIN ix.labels
              /\ ix.labels[ix.label_to_idx[l]] = l
         /\ FlatIndex_len(ix) = Cardinality(DOMAIN bare.given)
         /\ DOMAIN bare.given = Range(ix.labels)

\* A delete of the first of three labels moved the last one into its slot.
C29_Witness ==
    /\ last.op = "index.delete"
    /\ last.before.kind = "flat"
    /\ Len(last.before.labels) = 3
    /\ last.label = last.before.labels[1]
    /\ bare.index.labels = <<last.before.labels[3], last.before.labels[2]>>
    /\ bare.index.label_to_idx[last.before.labels[3]] = 1


\* The labels a search of the index returns for the query.
SearchLabels(ix, q) ==
    {HnswIndex_search(ix, q, MaxK)[k].id : k \in DOMAIN HnswIndex_search(ix, q, MaxK)}

\* The step is delete(label) of a live label.
DeleteOfLive(label) ==
    /\ label \in DOMAIN bare.index.label_to_id
    /\ bare'.index = HnswIndex_delete(bare.index, label)

\* delete(label) adds the node's id to the deleted set and removes the
\* label from the label map, and that is all; len() is one less and a
\* search right after it does not return the label.
DeleteIsSoft(label) ==
    LET ix == bare.index
        after == bare'.index
    IN /\ after.deleted = ix.deleted \cup {ix.label_to_id[label]}
       /\ after.label_to_id = MapDel(ix.label_to_id, label)
       /\ after.vectors = ix.vectors
       /\ after.layers = ix.layers
       /\ after.node_levels = ix.node_levels
       /\ after.id_to_label = ix.id_to_label
       /\ after.entry_point = ix.entry_point
       /\ after.max_level = ix.max_level
       /\ HnswIndex_len(after) = HnswIndex_len(ix) - 1
       /\ \A q \in Queries : label \notin SearchLabels(after, q)

\* C30: delete of a live label is soft (only the deleted set and the label
\* map change, len() is one less) and hides the label: the searches that
\* follow it do not return the label.
C30_DeleteIsSoftAndHides ==
    [][\A label \in BareLabels : DeleteOfLive(label) => DeleteIsSoft(label)]_vars

\* An index with no live label (len() = 0) whose search returns a label.
C30_Witness ==
    /\ bare.index.kind = "hnsw"
    /\ HnswIndex_len(bare.index) = 0
    /\ bare.index.deleted # {}
    /\ \E q \in Queries : SearchLabels(bare.index, q) # {}


\* The vector as insert stores it.
StoredForm(ix, vector) ==
    IF ix.metric = "cosine" THEN normalize_vector(FVec(vector)) ELSE FVec(vector)

\* C31: insert of a label that is live in an HNSW index replaces the
\* vector stored for the label's node and nothing else: the label map, the
\* adjacency lists, the node levels, entry_point, max_level and len() are
\* as before. The steps that give a live label another vector are the
\* inserts of that label; a step that gives no label a vector or another
\* vector (an insert of the vector the label has, among others) leaves
\* the index as it was.
C31_UpdateInPlace ==
    [][/\ bare'.given = bare.given => bare'.index = bare.index
       /\ \A label \in DOMAIN bare.given \cap DOMAIN bare'.given :
            bare'.given[label] # bare.given[label] =>
              LET ix == bare.index
                  after == bare'.index
                  id == ix.label_to_id[label]
              IN /\ after.vectors =
                      [ix.vectors EXCEPT ![id] = StoredForm(ix, bare'.given[label])]
                 /\ after.label_to_id = ix.label_to_id
                 /\ after.id_to_label = ix.id_to_label
                 /\ after.layers = ix.layers
                 /\ after.node_levels = ix.node_levels
                 /\ after.entry_point = ix.entry_point
                 /\ after.max_level = ix.max_level
                 /\ HnswIndex_len(after) = HnswIndex_len(ix)
      ]_vars

\* A live label of an index with two linked nodes was given another vector.
C31_Witness ==
    /\ last.op = "update"
    /\ Len(bare.index.vectors) = 2
    /\ bare.index.layers[1][1] # <<>>
    /\ bare.index.deleted = {}


\* The list of node id at the code's layer lev.
ListAt(ix, lev, id) == ix.layers[lev + 1][id]
\* The most neighbours a node may have at the layer.
MaxNeighbors(ix, lev) == IF lev = 0 THEN 2 * ix.m ELSE ix.m

Pruned(ix, lev) ==
    \E a, b \in DOMAIN ix.layers[lev + 1] :
       /\ a \in Range(ListAt(ix, lev, b))
       /\ b \notin Range(ListAt(ix, lev, a))
       /\ Len(ListAt(ix, lev, a)) = MaxNeighbors(ix, lev)

BadFilters ==
    {Num(1), Str("must"), Arr(<<MustA>>),
     Obj([field |-> Str("cat"), conds |-> Arr(<<Str("A")>>)]),
     Obj([op |-> Num(3), field |-> Str("cat"), conds |-> Arr(<<Str("A")>>)]),
     Obj([op |-> Str("should"), field |-> Str("cat"), conds |-> Arr(<<Str("A")>>)]),
     Obj([op |-> Str("must"), conds |-> Arr(<<Str("A")>>)]),
     Obj([op |-> Str("must_not"), field |-> Str("cat")]),
     Obj([op |-> Str("must"), field |-> Str("cat"), conds |-> Str("A")]),
     Obj([op |-> Str("range"), gte |-> Num(2)]),
     Obj([op |-> Str("and")]),
     Obj([op |-> Str("prefix"), field |-> Str("cat")])}

\* C33: a search with a filter value that does not parse is the search
\* with no filter: limit + offset hits are requested, the first offset of
\* them are passed over by position, and the items come back, each hit with
\* its score and the fields of its record, without an error.
C33_BadFilterIsNoFilter ==
    \A name \in DOMAIN coll.indexes, q \in Queries, pg \in PagesF, fj \in BadFilters :
        LET r == search_by_vector_filtered(coll, name, q, pg.limit, pg.offset, fj)
            hits == index_search(coll.indexes[name].index, q, pg.limit + pg.offset)
            left == IF Len(hits) > pg.offset THEN Len(hits) - pg.offset ELSE 0
        IN /\ Filter_from_json(fj) = None
           /\ r = search_by_vector_filtered(coll, name, q, pg.limit, pg.offset, None)
           /\ "data" \in DOMAIN r
           /\ Len(r.data) = left
           /\ \A k \in 1..Len(r.data) :
                /\ r.data[k].score = hits[pg.offset + k].score
                /\ r.data[k].id = label_to_pk(coll, hits[pg.offset + k].id)

\* An index over records of two categories, searched with an offset: the
\* unparsed filter returns items that a filter on the category leaves out.
C33_Witness ==
    \E name \in DOMAIN coll.indexes, q \in Queries, pg \in PagesF :
        LET bad == search_by_vector_filtered(coll, name, q, pg.limit, pg.offset, Num(1))
            good == search_by_vector_filtered(coll, name, q, pg.limit, pg.offset, MustA)
        IN /\ pg.offset > 0
           /\ Len(bad.data) = pg.limit
           /\ Len(good.data) < Len(bad.data)


\* C34: in a persistent project, a create_collection(name, cfg) that
\* follows drop_collection(name) yields an empty collection: its count()
\* is 0 and fetch_data finds none of the keys the dropped collection held.
C34_RecreatedCollectionIsEmpty ==
    [][(/\ last'.op = "create_collection"
        /\ last'.result = "Ok"
        /\ last'.name \in dropped)
       => /\ count(proj'.collections[last'.name]) = 0
          /\ \A pk \in {R1.id, R3.id} :
               fetch_data(proj'.collections[last'.name], <<pk>>) = <<None>>]_vars

\* A collection created again after the drop of a collection that held a
\* record.
C34_Witness ==
    /\ last.op = "create_collection"
    /\ last.result = "Ok"
    /\ count(proj.collections[last.name]) > 0


\* C35: a project removed with delete_project(name) in a persistent group
\* stays removed: in the group opened from the same root after the first
\* one was closed and dropped, has_project(name) is false.  ("default" is
\* left aside: with_path creates it on every open.)
C35_DeletedProjectStaysRemoved ==
    (last.op = "ProjectGroup::with_path" /\ group # None)
        => \A name \in dropped \ {"default"} : ~has_project(group, name)

\* A reopened persistent group in which a project other than "default" was
\* deleted and holds that project again.
C35_Witness ==
    /\ last.op = "ProjectGroup::with_path"
    /\ "x" \in dropped
    /\ has_project(group, "x")


\* C36: an auto-assigned label never equals a label of the record map: an
\* upsert_data whose records carry no primary-key value replaces no record
\* and adds one record per record given, whether the labels stored came
\* from integer primary keys, from earlier auto-ids or from recovery.
C36_AutoLabelIsFresh ==
    [][(/\ coll # None
        /\ coll' # None
        /\ last'.op = "upsert_data"
        /\ "ids" \in DOMAIN last'.result
        /\ \A i \in DOMAIN last'.data_list :
             primary_key(coll.config).str \notin DOMAIN last'.data_list[i])
       => /\ \A label \in DOMAIN coll.records :
               /\ label \in DOMAIN coll'.records
               /\ coll'.records[label] = coll.records[label]
          /\ count(coll') = count(coll) + Len(last'.data_list)]_vars

\* A record without a key upserted into a collection that holds a record
\* under an integer key, and the count did not grow.
C36_Witness ==
    /\ coll # None
    /\ last.op = "upsert_data"
    /\ last.data_list = <<R5>>
    /\ count(coll) = 1
    /\ coll.next_auto_id = 2
    /\ coll.records[1].fields = [cat |-> Str("A")]


\* C37: after upsert_data has replaced a record that had a vector by a
\* record that gives no vector field, the stored record's vector is empty
\* and no index returns the record's label from a search.
C37_VectorlessReplaceLeavesIndexes ==
    [][(/\ coll # None
        /\ coll' # None
        /\ last'.op = "upsert_data"
        /\ "ids" \in DOMAIN last'.result)
       => \A i \in DOMAIN last'.data_list :
            LET data == last'.data_list[i]
                label == value_to_u64(data.id)
            IN (/\ "id" \in DOMAIN data
                /\ "vec" \notin DOMAIN data
                /\ label \in DOMAIN coll.records
                /\ coll.records[label].vector # <<>>
                /\ \A j \in DOMAIN last'.data_list :
                     (j > i /\ "id" \in DOMAIN last'.data_list[j])
                        => value_to_u64(last'.data_list[j].id) # label)
               => /\ coll'.records[label].vector = <<>>
                  /\ \A name \in DOMAIN coll'.indexes, q \in Queries :
                       \A k \in DOMAIN index_search(coll'.indexes[name].index, q, TopK) :
                          index_search(coll'.indexes[name].index, q, TopK)[k].id # label]_vars

\* A stored record without a vector whose label an index still returns.
C37_Witness ==
    /\ coll # None
    /\ last.op = "upsert_data"
    /\ last.data_list = <<R4>>
    /\ coll.records[1].vector = <<>>
    /\ \E name \in DOMAIN coll.indexes, q \in Queries :
         \E k \in DOMAIN index_search(coll.indexes[name].index, q, TopK) :
            index_search(coll.indexes[name].index, q, TopK)[k].id = 1


\* C38: in every state of an HNSW index under insert, delete, save and
\* load, each id outside the deleted set is the id of exactly one label of
\* label_to_id, label_to_id and id_to_label agree on it, and no search
\* returns a label twice.
C38_LiveIdsHaveOneLabel ==
    (bare # None /\ bare.index.kind = "hnsw") =>
        LET ix == bare.index
        IN /\ \A id \in DOMAIN ix.id_to_label \ ix.deleted :
                Cardinality({l \in DOMAIN ix.label_to_id : ix.label_to_id[l] = id}) = 1
           /\ \A l \in DOMAIN ix.label_to_id : ix.id_to_label[ix.label_to_id[l]] = l
           /\ \A q \in Queries :
                LET found == HnswIndex_search(ix, q, MaxK)
                IN \A j, k \in DOMAIN found : j # k => found[j].id # found[k].id

\* A loaded index with two nodes of one label outside the deleted set, and
\* a search that returns the label twice.
C38_Witness ==
    /\ bare.index.kind = "hnsw"
    /\ bare.index.deleted = {}
    /\ \E i, j \in DOMAIN bare.index.id_to_label :
         i # j /\ bare.index.id_to_label[i] = bare.index.id_to_label[j]
    /\ \E q \in Queries :
         LET found == HnswIndex_search(bare.index, q, MaxK)
         IN \E j, k \in DOMAIN found : j # k /\ found[j].id = found[k].id


\* The threads have each returned true from a put, on two distinct keys.
BothPut(t, u) ==
    /\ t # u
    /\ thr[t].pc = "returned" /\ thr[t].result
    /\ thr[u].pc = "returned" /\ thr[u].result
    /\ thr[t].key # thr[u].key

\* C39: concurrent puts on two distinct keys do not interfere: when both
\* have returned true, get of each key returns the bytes put under it, also
\* when the keys differ only in their extension.
C39_DistinctKeysDoNotInterfere ==
    \A t, u \in Threads :
        BothPut(t, u) =>
            FileStore_get(TheStore, fstore, thr[t].key) = [some |-> thr[t].value]

\* The same for keys that do not end in .tmp.
C39_HoldsUnlessKeyIsTmp ==
    \A t, u \in Threads :
        (BothPut(t, u) /\ thr[t].key[3] # "tmp" /\ thr[u].key[3] # "tmp")
            => FileStore_get(TheStore, fstore, thr[t].key) = [some |-> thr[t].value]

\* Two puts that returned true on keys that differ in the extension only,
\* one of whose keys get does not find.
C39_Witness ==
    \E t, u \in Threads :
        /\ BothPut(t, u)
        /\ FileStore_get(TheStore, fstore, thr[t].key) = None

====
